---------------------------- MODULE Spec2Model ----------------------------
(***************************************************************************)
(* Persistent points-to data structures                                    *)
(* (include/MemoryModel/PersistentPointsToDS.h).                           *)
(*                                                                         *)
(* Every store maps a Key to a PointsToID issued by a shared               *)
(* PersistentPointsToCache and lets the cache do the set algebra.  The     *)
(* model keeps the IDs: every comparison the code makes on IDs is made on  *)
(* IDs here.  A std::unordered_map is a function whose DOMAIN is the set   *)
(* of keys that have an entry, so that operator[] creating an entry is a   *)
(* change of state.                                                        *)
(***************************************************************************)
EXTENDS Integers, Sequences, FiniteSets, TLC

\* ------------------------------------------------------------- bounds
NumKeys == 2
NumData == 2
NumLocs == 2
\* The number of calls in a behaviour of Spec, SpecBase, SpecDiff and SpecDF.
MaxOps == 3
MaxBaseOps == 5
MaxDiffOps == 4
MaxDFOps == 5
\* The largest n topN is called with.
MaxTopN == 3
\* The number of calls in a behaviour of SpecVer.
MaxVerOps == 4
\* The number of calls in a behaviour of SpecRev.
MaxRevOps == 3
\* Calls of a store that is used at every location.
MaxLocOps == 5

\* The addPts calls before a driver of union-style calls starts, and the
\* number of calls in the list it repeats.
MaxSeedOps == 1
ConvLen == 2

\* Calls of an IncDF store whose twin gets the same calls.
MaxTwinOps == 5

\* The number of calls before a fixpoint driver starts, and the number of
\* transfers in the list it repeats.
MaxSetupOps == 3
DriverLen == 2

Keys == 1..NumKeys
Datas == 1..NumData
Locs == 1..NumLocs
DataSets == SUBSET Datas

VARIABLES
    ty,          \* PTDataTy of the store under test
    rev,         \* reversePT, the constructor's flag
    persPTData,  \* PersistentPTData: the Basic store, or the one a Diff store embeds
    diffPtsMap,  \* PersistentDiffPTData::diffPtsMap
    propaPtsMap, \* PersistentDiffPTData::propaPtsMap
    df,          \* a PersistentDFPTData
    inc,         \* a PersistentIncDFPTData
    twin,        \* whether df is given every call the PersIncDataFlow store under test gets
    tlPTData,    \* PersistentVersionedPTData::tlPTData
    atPTData,    \* PersistentVersionedPTData::atPTData
    op,          \* the name of the last operation called
    ret,         \* what the last bool-returning operation returned
    retDF,       \* what it returned on df, when df is the twin
    nops,        \* number of operations called so far
    prog,        \* the list of transfers a fixpoint driver repeats
    pc,          \* 0: no driver; i in 1..DriverLen: the driver is at the i-th transfer; DriverLen+1: at fixpoint
    again,       \* whether a transfer of this pass has returned true
    fatal        \* whether a call has ended in the fatal error: the program is aborted

vars == <<ty, rev, persPTData, diffPtsMap, propaPtsMap, df, inc, twin,
          tlPTData, atPTData, op, ret, retDF, nops, prog, pc, again, fatal>>

\* ------------------------------------------------- std::unordered_map
\* A default-constructed Map.
EmptyMap == [x \in {} |-> 0]

\* PersistentPointsToCache::emptyPointsToId().
emptyPointsToId == 0

\* The value m[k] reads (a missing entry is value-initialised to 0).
Get(m, k) == IF k \in DOMAIN m THEN m[k] ELSE emptyPointsToId

\* What m[k] does to m when it only reads: the entry exists afterwards.
Touch(m, k) == [x \in DOMAIN m \cup {k} |-> IF x \in DOMAIN m THEN m[x] ELSE emptyPointsToId]

\* m[k] = v.
Put(m, k, v) == [x \in DOMAIN m \cup {k} |-> IF x = k THEN v ELSE m[x]]

\* ------------------------------------------ PersistentPointsToCache
\* The cache interns DataSets: equal sets get the same ID, different sets
\* different IDs, the empty set emptyPointsToId, and unionPts, complementPts
\* and intersectPts return the ID of the set they compute.  The numbering
\* itself is the cache's own business; here a set's ID is the number whose
\* binary digits are its elements, so that the cache needs no state.
getActualPts(id) == {d \in Datas : (id \div (2 ^ (d - 1))) % 2 = 1}

emplacePts(s) == CHOOSE id \in 0..(2 ^ NumData - 1) : getActualPts(id) = s

ptCache_unionPts(lhs, rhs) == emplacePts(getActualPts(lhs) \cup getActualPts(rhs))

ptCache_complementPts(lhs, rhs) == emplacePts(getActualPts(lhs) \ getActualPts(rhs))

ptCache_intersectPts(lhs, rhs) == emplacePts(getActualPts(lhs) \cap getActualPts(rhs))

\* ------------------------------------------------- PersistentPTData
\* A PersistentPTData object P is [ptsMap, revPtsMap].  revPtsMap is total:
\* a Data without an entry and a Data with an empty KeySet read the same
\* through every method.
NewPTData == [ptsMap |-> EmptyMap, revPtsMap |-> [d \in Datas |-> {}]]

\* Each method returns the object after the call (pt) and its result (ret).
\* unionPtsFromId with the destination overwritten by the source instead of
\* united with it.
unionPtsFromId_assign(P, dstKey, srcId) ==
    LET m == Touch(P.ptsMap, dstKey)
        dstId == m[dstKey]
        newDstId == srcId
        changed == newDstId # dstId
        srcPts == getActualPts(srcId)
    IN  IF changed
        THEN [pt |-> [ptsMap |-> Put(m, dstKey, newDstId),
                      revPtsMap |-> IF rev
                                    THEN [d \in Datas |-> IF d \in srcPts
                                                          THEN P.revPtsMap[d] \cup {dstKey}
                                                          ELSE P.revPtsMap[d]]
                                    ELSE P.revPtsMap],
              ret |-> TRUE]
        ELSE [pt |-> [P EXCEPT !.ptsMap = m], ret |-> FALSE]

\* unionPtsFromId leaving the reverse map as it was.
unionPtsFromId_noRev(P, dstKey, srcId) ==
    LET m == Touch(P.ptsMap, dstKey)
        dstId == m[dstKey]
        newDstId == ptCache_unionPts(dstId, srcId)
    IN  IF newDstId # dstId
        THEN [pt |-> [ptsMap |-> Put(m, dstKey, newDstId), revPtsMap |-> P.revPtsMap],
              ret |-> TRUE]
        ELSE [pt |-> [P EXCEPT !.ptsMap = m], ret |-> FALSE]

unionPtsFromId(P, dstKey, srcId) ==
    LET m == Touch(P.ptsMap, dstKey)
        dstId == m[dstKey]
        newDstId == ptCache_unionPts(dstId, srcId)
        changed == newDstId # dstId
        srcPts == getActualPts(srcId)
    IN  IF changed
        THEN [pt |-> [ptsMap |-> Put(m, dstKey, newDstId),
                      revPtsMap |-> IF rev
                                    THEN [d \in Datas |-> IF d \in srcPts
                                                          THEN P.revPtsMap[d] \cup {dstKey}
                                                          ELSE P.revPtsMap[d]]
                                    ELSE P.revPtsMap],
              ret |-> TRUE]
        ELSE [pt |-> [P EXCEPT !.ptsMap = m], ret |-> FALSE]

PT_clear(P) == NewPTData

\* getPts looking the key up with find, which creates no entry.
PT_getPts_find(P, var) == P

\* getPts and getRevPts return a reference to the set; PT_getPts is the
\* object after getPts, and Pts below the set it returns.
PT_getPts(P, var) == [P EXCEPT !.ptsMap = Touch(P.ptsMap, var)]

getRevPts(P, data) == P.revPtsMap[data]

PT_addPts(P, dstKey, element) == unionPtsFromId(P, dstKey, emplacePts({element}))

PT_unionPts(P, dstKey, srcKey) ==
    LET m == Touch(P.ptsMap, srcKey)
    IN  unionPtsFromId([P EXCEPT !.ptsMap = m], dstKey, m[srcKey])

PT_unionPtsSet(P, dstKey, srcData) == unionPtsFromId(P, dstKey, emplacePts(srcData))

clearSingleRevPts(revSet, k) == IF rev THEN revSet \ {k} ELSE revSet

clearRevPts(R, pts, k) ==
    IF rev
    THEN [d \in Datas |-> IF d \in pts THEN clearSingleRevPts(R[d], k) ELSE R[d]]
    ELSE R

\* clearPts taking every element away, not only the one named.
PT_clearPts_all(P, var, element) ==
    LET m == Touch(P.ptsMap, var)
        varId == m[var]
    IN  IF varId # emptyPointsToId
        THEN [ptsMap |-> Put(m, var, emptyPointsToId),
              revPtsMap |-> clearRevPts(P.revPtsMap, getActualPts(varId), var)]
        ELSE [P EXCEPT !.ptsMap = m]

PT_clearPts(P, var, element) ==
    LET toRemoveId == emplacePts({element})
        m == Touch(P.ptsMap, var)
        varId == m[var]
        complementId == ptCache_complementPts(varId, toRemoveId)
    IN  IF varId # complementId
        THEN [ptsMap |-> Put(m, var, complementId),
              revPtsMap |-> [P.revPtsMap EXCEPT ![element] = clearSingleRevPts(@, var)]]
        ELSE [P EXCEPT !.ptsMap = m]

\* clearFullPts without the call of clearRevPts.
PT_clearFullPts_keepRev(P, var) ==
    [P EXCEPT !.ptsMap = Put(P.ptsMap, var, emptyPointsToId)]

PT_clearFullPts(P, var) ==
    [ptsMap |-> Put(P.ptsMap, var, emptyPointsToId),
     revPtsMap |-> clearRevPts(P.revPtsMap, getActualPts(Get(P.ptsMap, var)), var)]

\* --------------------------------------------- PersistentDiffPTData
\* The maps of a Diff store are the variables persPTData, diffPtsMap and
\* propaPtsMap; a method returns the maps it writes.
\* computeDiffPts with the operands of complementPts exchanged.
computeDiffPts_swapped(propa, diff, var, all) ==
    LET p == Touch(propa, var)
        propaId == p[var]
        allId == emplacePts(all)
        diffId == ptCache_complementPts(propaId, allId)
    IN  [diff |-> Put(diff, var, diffId),
         propa |-> Put(p, var, allId),
         ret |-> (diffId # emptyPointsToId)]

\* computeDiffPts without the assignment propaPtsMap[var] = allId.
computeDiffPts_noPropa(propa, diff, var, all) ==
    LET p == Touch(propa, var)
        propaId == p[var]
        allId == emplacePts(all)
        diffId == ptCache_complementPts(allId, propaId)
    IN  [diff |-> Put(diff, var, diffId),
         propa |-> p,
         ret |-> (diffId # emptyPointsToId)]

computeDiffPts(propa, diff, var, all) ==
    LET p == Touch(propa, var)
        propaId == p[var]
        allId == emplacePts(all)
        diffId == ptCache_complementPts(allId, propaId)
    IN  [diff |-> Put(diff, var, diffId),
         propa |-> Put(p, var, allId),
         ret |-> (diffId # emptyPointsToId)]

\* updatePropaPtsMap with unionPts where the code has intersectPts.
updatePropaPtsMap_union(propa, src, dst) ==
    LET p == Touch(Touch(propa, dst), src)
    IN  Put(p, dst, ptCache_unionPts(p[dst], p[src]))

updatePropaPtsMap(propa, src, dst) ==
    LET p == Touch(Touch(propa, dst), src)
    IN  Put(p, dst, ptCache_intersectPts(p[dst], p[src]))

clearPropaPts(propa, var) == Put(propa, var, emptyPointsToId)

\* ----------------------------------------------- PersistentDFPTData
\* A PersistentDFPTData object D is [persPTData, dfInPtsMap, dfOutPtsMap];
\* a PersistentIncDFPTData object has the fields inUpdatedVarMap and
\* outUpdatedVarMap as well, and the methods it inherits leave them alone.
NewDF == [persPTData |-> NewPTData, dfInPtsMap |-> EmptyMap, dfOutPtsMap |-> EmptyMap]

NewIncDF == [persPTData |-> NewPTData, dfInPtsMap |-> EmptyMap, dfOutPtsMap |-> EmptyMap,
             inUpdatedVarMap |-> [l \in Locs |-> {}],
             outUpdatedVarMap |-> [l \in Locs |-> {}]]

\* The ID dfMap[loc][var] reads.
Get2(dfMap, loc, var) ==
    IF loc \in DOMAIN dfMap THEN Get(dfMap[loc], var) ELSE emptyPointsToId

\* dfMap[loc][var] when it only reads: both entries exist afterwards.
Touch2(dfMap, loc, var) ==
    [x \in DOMAIN dfMap \cup {loc} |->
        IF x = loc
        THEN Touch(IF loc \in DOMAIN dfMap THEN dfMap[loc] ELSE EmptyMap, var)
        ELSE dfMap[x]]

\* dfMap[loc][var] = id.
Put2(dfMap, loc, var, id) ==
    [x \in DOMAIN dfMap \cup {loc} |->
        IF x = loc
        THEN Put(IF loc \in DOMAIN dfMap THEN dfMap[loc] ELSE EmptyMap, var, id)
        ELSE dfMap[x]]

\* clear() that also empties the IN and OUT maps, and nothing else.
DF_clear_maps(D) ==
    [D EXCEPT !.persPTData = PT_clear(D.persPTData),
              !.dfInPtsMap = NewDF.dfInPtsMap,
              !.dfOutPtsMap = NewDF.dfOutPtsMap]

\* The method "clear" of the DF stores; the IN and OUT maps, and the updated
\* sets of the incremental store, are not among what it clears.
DF_clear(D) == [D EXCEPT !.persPTData = PT_clear(D.persPTData)]

hasDFInSet(D, loc) == loc \in DOMAIN D.dfInPtsMap

hasDFOutSet(D, loc) == loc \in DOMAIN D.dfOutPtsMap

hasDFInSetVar(D, loc, var) ==
    loc \in DOMAIN D.dfInPtsMap /\ var \in DOMAIN D.dfInPtsMap[loc]

hasDFOutSetVar(D, loc, var) ==
    loc \in DOMAIN D.dfOutPtsMap /\ var \in DOMAIN D.dfOutPtsMap[loc]

getDFInPtsSet(D, loc, var) == [D EXCEPT !.dfInPtsMap = Touch2(D.dfInPtsMap, loc, var)]

getDFOutPtsSet(D, loc, var) == [D EXCEPT !.dfOutPtsMap = Touch2(D.dfOutPtsMap, loc, var)]

\* unionPtsThroughIds returning whether the source had anything to give.
unionPtsThroughIds_retSrc(dst, src) ==
    LET newDst == ptCache_unionPts(dst, src)
    IN  [id |-> newDst, ret |-> (src # emptyPointsToId)]

\* dst = ptCache.unionPts(dst, src); the caller stores id in the slot dst names.
unionPtsThroughIds(dst, src) ==
    LET newDst == ptCache_unionPts(dst, src)
    IN  [id |-> newDst, ret |-> (dst # newDst)]

DF_updateDFInFromIn(D, srcLoc, srcVar, dstLoc, dstVar) ==
    LET in == Touch2(Touch2(D.dfInPtsMap, dstLoc, dstVar), srcLoc, srcVar)
        u == unionPtsThroughIds(in[dstLoc][dstVar], in[srcLoc][srcVar])
    IN  [st |-> [D EXCEPT !.dfInPtsMap = Put2(in, dstLoc, dstVar, u.id)], ret |-> u.ret]

\* updateDFInFromOut that moves the set: the source OUT set is empty
\* afterwards.
DF_updateDFInFromOut_move(D, srcLoc, srcVar, dstLoc, dstVar) ==
    LET in == Touch2(D.dfInPtsMap, dstLoc, dstVar)
        out == Touch2(D.dfOutPtsMap, srcLoc, srcVar)
        u == unionPtsThroughIds(in[dstLoc][dstVar], out[srcLoc][srcVar])
    IN  [st |-> [D EXCEPT !.dfInPtsMap = Put2(in, dstLoc, dstVar, u.id),
                          !.dfOutPtsMap = Put2(out, srcLoc, srcVar, emptyPointsToId)],
         ret |-> u.ret]

DF_updateDFInFromOut(D, srcLoc, srcVar, dstLoc, dstVar) ==
    LET in == Touch2(D.dfInPtsMap, dstLoc, dstVar)
        out == Touch2(D.dfOutPtsMap, srcLoc, srcVar)
        u == unionPtsThroughIds(in[dstLoc][dstVar], out[srcLoc][srcVar])
    IN  [st |-> [D EXCEPT !.dfInPtsMap = Put2(in, dstLoc, dstVar, u.id),
                          !.dfOutPtsMap = out], ret |-> u.ret]

DF_updateAllDFInFromIn(D, srcLoc, srcVar, dstLoc, dstVar) ==
    DF_updateDFInFromIn(D, srcLoc, srcVar, dstLoc, dstVar)

DF_updateAllDFInFromOut(D, srcLoc, srcVar, dstLoc, dstVar) ==
    DF_updateDFInFromOut(D, srcLoc, srcVar, dstLoc, dstVar)

DF_updateDFOutFromIn(D, srcLoc, srcVar, dstLoc, dstVar) ==
    LET out == Touch2(D.dfOutPtsMap, dstLoc, dstVar)
        in == Touch2(D.dfInPtsMap, srcLoc, srcVar)
        u == unionPtsThroughIds(out[dstLoc][dstVar], in[srcLoc][srcVar])
    IN  [st |-> [D EXCEPT !.dfOutPtsMap = Put2(out, dstLoc, dstVar, u.id),
                          !.dfInPtsMap = in], ret |-> u.ret]

\* The loop of updateAllDFOutFromIn without the "continue" of a strong update.
RECURSIVE DF_updateAllLoop_noSkip(_, _, _, _, _, _)
DF_updateAllLoop_noSkip(r, order, i, loc, singleton, strongUpdates) ==
    IF i > Len(order) THEN r
    ELSE LET s == DF_updateDFOutFromIn(r.st, loc, order[i], loc, order[i])
         IN  DF_updateAllLoop_noSkip([st |-> s.st, ret |-> (r.ret \/ s.ret)],
                                     order, i + 1, loc, singleton, strongUpdates)

\* The loop of updateAllDFOutFromIn over the keys order[i..], in that order;
\* r is the state and the flag "changed" so far.
RECURSIVE DF_updateAllLoop(_, _, _, _, _, _)
DF_updateAllLoop(r, order, i, loc, singleton, strongUpdates) ==
    IF i > Len(order) THEN r
    ELSE IF strongUpdates /\ order[i] = singleton
         THEN DF_updateAllLoop(r, order, i + 1, loc, singleton, strongUpdates)
         ELSE LET s == DF_updateDFOutFromIn(r.st, loc, order[i], loc, order[i])
              IN  DF_updateAllLoop([st |-> s.st, ret |-> (r.ret \/ s.ret)],
                                   order, i + 1, loc, singleton, strongUpdates)

\* The keys of S as the sequence a loop visits.  Each iteration reads and
\* writes the slots of its own key only, so the order of the visit does not
\* show in the result; the loop here goes in increasing order.
KeySeq(S) == SelectSeq([k \in 1..NumKeys |-> k], LAMBDA k : k \in S)

DF_updateAllDFOutFromIn(D, loc, singleton, strongUpdates) ==
    IF hasDFInSet(D, loc)
    THEN DF_updateAllLoop([st |-> D, ret |-> FALSE],
                          KeySeq(DOMAIN D.dfInPtsMap[loc]), 1, loc, singleton, strongUpdates)
    ELSE [st |-> D, ret |-> FALSE]

DF_clearAllDFOutUpdatedVar(D, loc) == D

DF_updateTLVPts(D, srcLoc, srcVar, dstVar) ==
    LET m == Touch(D.persPTData.ptsMap, dstVar)
        in == Touch2(D.dfInPtsMap, srcLoc, srcVar)
        u == unionPtsThroughIds(m[dstVar], in[srcLoc][srcVar])
    IN  [st |-> [D EXCEPT !.persPTData.ptsMap = Put(m, dstVar, u.id),
                          !.dfInPtsMap = in], ret |-> u.ret]

DF_updateATVPts(D, srcVar, dstLoc, dstVar) ==
    LET out == Touch2(D.dfOutPtsMap, dstLoc, dstVar)
        m == Touch(D.persPTData.ptsMap, srcVar)
        u == unionPtsThroughIds(out[dstLoc][dstVar], m[srcVar])
    IN  [st |-> [D EXCEPT !.dfOutPtsMap = Put2(out, dstLoc, dstVar, u.id),
                          !.persPTData.ptsMap = m], ret |-> u.ret]

\* -------------------------------------------- PersistentIncDFPTData
setVarDFInSetUpdated(I, loc, var) ==
    [I EXCEPT !.inUpdatedVarMap[loc] = @ \cup {var}]

removeVarFromDFInUpdatedSet(I, loc, var) ==
    [I EXCEPT !.inUpdatedVarMap[loc] = @ \ {var}]

varHasNewDFInPts(I, loc, var) == var \in I.inUpdatedVarMap[loc]

getDFInUpdatedVar(I, loc) == I.inUpdatedVarMap[loc]

setVarDFOutSetUpdated(I, loc, var) ==
    [I EXCEPT !.outUpdatedVarMap[loc] = @ \cup {var}]

removeVarFromDFOutUpdatedSet(I, loc, var) ==
    [I EXCEPT !.outUpdatedVarMap[loc] = @ \ {var}]

varHasNewDFOutPts(I, loc, var) == var \in I.outUpdatedVarMap[loc]

getDFOutUpdatedVar(I, loc) == I.outUpdatedVarMap[loc]

\* updateDFInFromIn without the test of the source's dirty flag.
Inc_updateDFInFromIn_unguarded(I, srcLoc, srcVar, dstLoc, dstVar) ==
    LET r == DF_updateDFInFromIn(I, srcLoc, srcVar, dstLoc, dstVar)
    IN  IF r.ret
        THEN [st |-> setVarDFInSetUpdated(r.st, dstLoc, dstVar), ret |-> TRUE]
        ELSE [st |-> r.st, ret |-> FALSE]

Inc_updateDFInFromIn(I, srcLoc, srcVar, dstLoc, dstVar) ==
    IF varHasNewDFInPts(I, srcLoc, srcVar)
    THEN LET r == DF_updateDFInFromIn(I, srcLoc, srcVar, dstLoc, dstVar)
         IN  IF r.ret
             THEN [st |-> setVarDFInSetUpdated(r.st, dstLoc, dstVar), ret |-> TRUE]
             ELSE [st |-> r.st, ret |-> FALSE]
    ELSE [st |-> I, ret |-> FALSE]

Inc_updateDFInFromOut(I, srcLoc, srcVar, dstLoc, dstVar) ==
    IF varHasNewDFOutPts(I, srcLoc, srcVar)
    THEN LET r == DF_updateDFInFromOut(I, srcLoc, srcVar, dstLoc, dstVar)
         IN  IF r.ret
             THEN [st |-> setVarDFInSetUpdated(r.st, dstLoc, dstVar), ret |-> TRUE]
             ELSE [st |-> r.st, ret |-> FALSE]
    ELSE [st |-> I, ret |-> FALSE]

\* updateDFOutFromIn leaving the source's dirty flag where it is.
Inc_updateDFOutFromIn_keepFlag(I, srcLoc, srcVar, dstLoc, dstVar) ==
    IF varHasNewDFInPts(I, srcLoc, srcVar)
    THEN LET r == DF_updateDFOutFromIn(I, srcLoc, srcVar, dstLoc, dstVar)
         IN  IF r.ret
             THEN [st |-> setVarDFOutSetUpdated(r.st, dstLoc, dstVar), ret |-> TRUE]
             ELSE [st |-> r.st, ret |-> FALSE]
    ELSE [st |-> I, ret |-> FALSE]

Inc_updateDFOutFromIn(I, srcLoc, srcVar, dstLoc, dstVar) ==
    IF varHasNewDFInPts(I, srcLoc, srcVar)
    THEN LET r == DF_updateDFOutFromIn(removeVarFromDFInUpdatedSet(I, srcLoc, srcVar),
                                       srcLoc, srcVar, dstLoc, dstVar)
         IN  IF r.ret
             THEN [st |-> setVarDFOutSetUpdated(r.st, dstLoc, dstVar), ret |-> TRUE]
             ELSE [st |-> r.st, ret |-> FALSE]
    ELSE [st |-> I, ret |-> FALSE]

\* updateAllDFInFromOut with the test of the source's dirty flag that
\* updateDFInFromOut makes.
Inc_updateAllDFInFromOut_guarded(I, srcLoc, srcVar, dstLoc, dstVar) ==
    IF varHasNewDFOutPts(I, srcLoc, srcVar)
    THEN LET r == DF_updateDFInFromOut(I, srcLoc, srcVar, dstLoc, dstVar)
         IN  IF r.ret
             THEN [st |-> setVarDFInSetUpdated(r.st, dstLoc, dstVar), ret |-> TRUE]
             ELSE [st |-> r.st, ret |-> FALSE]
    ELSE [st |-> I, ret |-> FALSE]

\* updateAllDFInFromOut reading the source from the IN map, as
\* updateAllDFInFromIn does.
Inc_updateAllDFInFromOut_fromIn(I, srcLoc, srcVar, dstLoc, dstVar) ==
    LET r == DF_updateDFInFromIn(I, srcLoc, srcVar, dstLoc, dstVar)
    IN  IF r.ret
        THEN [st |-> setVarDFInSetUpdated(r.st, dstLoc, dstVar), ret |-> TRUE]
        ELSE [st |-> r.st, ret |-> FALSE]

Inc_updateAllDFInFromOut(I, srcLoc, srcVar, dstLoc, dstVar) ==
    LET r == DF_updateDFInFromOut(I, srcLoc, srcVar, dstLoc, dstVar)
    IN  IF r.ret
        THEN [st |-> setVarDFInSetUpdated(r.st, dstLoc, dstVar), ret |-> TRUE]
        ELSE [st |-> r.st, ret |-> FALSE]

\* updateAllDFInFromIn marking the destination whether or not it changed.
Inc_updateAllDFInFromIn_markAlways(I, srcLoc, srcVar, dstLoc, dstVar) ==
    LET r == DF_updateDFInFromIn(I, srcLoc, srcVar, dstLoc, dstVar)
    IN  [st |-> setVarDFInSetUpdated(r.st, dstLoc, dstVar), ret |-> r.ret]

Inc_updateAllDFInFromIn(I, srcLoc, srcVar, dstLoc, dstVar) ==
    LET r == DF_updateDFInFromIn(I, srcLoc, srcVar, dstLoc, dstVar)
    IN  IF r.ret
        THEN [st |-> setVarDFInSetUpdated(r.st, dstLoc, dstVar), ret |-> TRUE]
        ELSE [st |-> r.st, ret |-> FALSE]

\* The loop of updateAllDFOutFromIn without the skip of singleton under
\* strong updates.
RECURSIVE Inc_updateAllLoop_noSkip(_, _, _, _, _, _)
Inc_updateAllLoop_noSkip(r, order, i, loc, singleton, strongUpdates) ==
    IF i > Len(order) THEN r
    ELSE LET s == Inc_updateDFOutFromIn(r.st, loc, order[i], loc, order[i])
         IN  Inc_updateAllLoop_noSkip([st |-> s.st, ret |-> (r.ret \/ s.ret)],
                                      order, i + 1, loc, singleton, strongUpdates)

RECURSIVE Inc_updateAllLoop(_, _, _, _, _, _)
Inc_updateAllLoop(r, order, i, loc, singleton, strongUpdates) ==
    IF i > Len(order) THEN r
    ELSE IF strongUpdates /\ order[i] = singleton
         THEN Inc_updateAllLoop(r, order, i + 1, loc, singleton, strongUpdates)
         ELSE LET s == Inc_updateDFOutFromIn(r.st, loc, order[i], loc, order[i])
              IN  Inc_updateAllLoop([st |-> s.st, ret |-> (r.ret \/ s.ret)],
                                    order, i + 1, loc, singleton, strongUpdates)

\* updateAllDFOutFromIn going through every variable of dfIn[loc], as the
\* DF store's does.
Inc_updateAllDFOutFromIn_everyVar(I, loc, singleton, strongUpdates) ==
    DF_updateAllDFOutFromIn(I, loc, singleton, strongUpdates)

\* vars is the copy of inUpdatedVarMap[loc] taken before the loop.
Inc_updateAllDFOutFromIn(I, loc, singleton, strongUpdates) ==
    IF hasDFInSet(I, loc)
    THEN Inc_updateAllLoop([st |-> I, ret |-> FALSE],
                           KeySeq(getDFInUpdatedVar(I, loc)), 1, loc, singleton, strongUpdates)
    ELSE [st |-> I, ret |-> FALSE]

\* updateTLVPts that leaves the source's flag in inDirty.
Inc_updateTLVPts_keepFlag(I, srcLoc, srcVar, dstVar) ==
    IF varHasNewDFInPts(I, srcLoc, srcVar)
    THEN DF_updateTLVPts(I, srcLoc, srcVar, dstVar)
    ELSE [st |-> I, ret |-> FALSE]

Inc_updateTLVPts(I, srcLoc, srcVar, dstVar) ==
    IF varHasNewDFInPts(I, srcLoc, srcVar)
    THEN DF_updateTLVPts(removeVarFromDFInUpdatedSet(I, srcLoc, srcVar),
                         srcLoc, srcVar, dstVar)
    ELSE [st |-> I, ret |-> FALSE]

\* updateATVPts without the marking of the destination.
Inc_updateATVPts_noMark(I, srcVar, dstLoc, dstVar) ==
    DF_updateATVPts(I, srcVar, dstLoc, dstVar)

Inc_updateATVPts(I, srcVar, dstLoc, dstVar) ==
    LET r == DF_updateATVPts(I, srcVar, dstLoc, dstVar)
    IN  IF r.ret
        THEN [st |-> setVarDFOutSetUpdated(r.st, dstLoc, dstVar), ret |-> TRUE]
        ELSE [st |-> r.st, ret |-> FALSE]

\* clearAllDFOutUpdatedVar that empties the OUT dirty set of every location.
Inc_clearAllDFOutUpdatedVar_allLocs(I, loc) ==
    IF hasDFOutSet(I, loc)
    THEN [I EXCEPT !.outUpdatedVarMap = [l \in Locs |-> {}]]
    ELSE I

\* Removing every variable of the copy, one by one, empties the set.
Inc_clearAllDFOutUpdatedVar(I, loc) ==
    IF hasDFOutSet(I, loc)
    THEN [I EXCEPT !.outUpdatedVarMap[loc] = @ \ getDFOutUpdatedVar(I, loc)]
    ELSE I

\* --------------------------------------------------------- statistics
\* maps: a sequence of KeyToIDMaps.  The (map, key) pairs whose ID is not
\* the empty set's.
NonEmptyEntries(maps) ==
    {e \in UNION {{<<i, k>> : k \in DOMAIN maps[i]} : i \in 1..Len(maps)} :
        maps[e[1]][e[2]] # emptyPointsToId}

\* The sum of the n largest of the counts cnt[id], id in ids (of all of them
\* when there are fewer than n).
RECURSIVE SumLargest(_, _, _)
SumLargest(cnt, ids, n) ==
    IF n = 0 \/ ids = {} THEN 0
    ELSE LET b == CHOOSE i \in ids : \A j \in ids : cnt[i] >= cnt[j]
         IN  cnt[b] + SumLargest(cnt, ids \ {b}, n - 1)

\* The body the topN methods share: <<mostCommonCount, keys>>.
topNOf(maps, n) ==
    LET es == NonEmptyEntries(maps)
        ids == {maps[e[1]][e[2]] : e \in es}
        ptCounts == [id \in ids |-> Cardinality({e \in es : maps[e[1]][e[2]] = id})]
    IN  <<SumLargest(ptCounts, ids, n), Cardinality(es)>>

inUsePointsToSetsOf(maps) ==
    Cardinality(UNION {{maps[i][k] : k \in DOMAIN maps[i]} : i \in 1..Len(maps)})

PT_topN(P, n) == topNOf(<<P.ptsMap>>, n)

PT_inUsePointsToSets(P) == inUsePointsToSetsOf(<<P.ptsMap>>)

\* The per-location maps of dfMap, as a sequence.
LocMaps(dfMap) ==
    LET ls == SelectSeq([l \in 1..NumLocs |-> l], LAMBDA l : l \in DOMAIN dfMap)
    IN  [i \in 1..Len(ls) |-> dfMap[ls[i]]]

\* topN of a DF store that leaves the OUT maps out.
DF_topN_noOut(D, n) ==
    topNOf(<<D.persPTData.ptsMap>> \o LocMaps(D.dfInPtsMap), n)

DF_topN(D, n) ==
    topNOf(<<D.persPTData.ptsMap>> \o LocMaps(D.dfInPtsMap) \o LocMaps(D.dfOutPtsMap), n)

DF_inUsePointsToSets(D) ==
    inUsePointsToSetsOf(<<D.persPTData.ptsMap>> \o LocMaps(D.dfInPtsMap)
                        \o LocMaps(D.dfOutPtsMap))

V_topN(tl, at, n) == topNOf(<<tl.ptsMap, at.ptsMap>>, n)

V_inUsePointsToSets(tl, at) == inUsePointsToSetsOf(<<tl.ptsMap, at.ptsMap>>)

\* topN(n) and inUsePointsToSets() of the store under test.
topN(n) ==
    CASE ty \in {"PersBase", "PersDiff"} -> PT_topN(persPTData, n)
      [] ty = "PersDataFlow" -> DF_topN(df, n)
      [] ty = "PersIncDataFlow" -> DF_topN(inc, n)
      [] ty = "PersVersioned" -> V_topN(tlPTData, atPTData, n)

inUsePointsToSets ==
    CASE ty \in {"PersBase", "PersDiff"} -> PT_inUsePointsToSets(persPTData)
      [] ty = "PersDataFlow" -> DF_inUsePointsToSets(df)
      [] ty = "PersIncDataFlow" -> DF_inUsePointsToSets(inc)
      [] ty = "PersVersioned" -> V_inUsePointsToSets(tlPTData, atPTData)

\* ------------------------------------------------------- observations
\* The sets the getters return, read without calling them (a call creates
\* the entry it reads).
Pts(P, k) == getActualPts(Get(P.ptsMap, k))

DFIn(D, l, k) == getActualPts(Get2(D.dfInPtsMap, l, k))

DFOut(D, l, k) == getActualPts(Get2(D.dfOutPtsMap, l, k))

\* What getDiffPts(k) returns, and the set propaPtsMap holds for k.
Diff(k) == getActualPts(Get(diffPtsMap, k))

Propa(k) == getActualPts(Get(propaPtsMap, k))

\* The key spaces of the store under test, and the PersistentPTData a
\* top-level operation on key space s goes to: the Basic store itself, the
\* one a Diff or DF store embeds, tlPTData or atPTData of a Versioned store.
Spaces == IF ty = "PersVersioned" THEN {"tl", "at"} ELSE {"tl"}

PTOf(s) ==
    CASE ty \in {"PersBase", "PersDiff"} -> persPTData
      [] ty = "PersDataFlow" -> df.persPTData
      [] ty = "PersIncDataFlow" -> inc.persPTData
      [] ty = "PersVersioned" -> IF s = "tl" THEN tlPTData ELSE atPTData

\* The DF store under test.
DFStore == IF ty = "PersDataFlow" THEN df ELSE inc

\* --------------------------------------------------------------- Init
\* PTData::PTDataTy, the persistent kinds: the store under test is one of
\* them.
PTDataTy == {"PersBase", "PersDiff", "PersDataFlow", "PersIncDataFlow", "PersVersioned"}

DFKinds == {"PersDataFlow", "PersIncDataFlow"}

\* Every store as its constructor leaves it, and no call yet.
Fresh ==
    /\ persPTData = NewPTData
    /\ diffPtsMap = EmptyMap
    /\ propaPtsMap = EmptyMap
    /\ df = NewDF
    /\ inc = NewIncDF
    /\ tlPTData = NewPTData
    /\ atPTData = NewPTData
    /\ op = "new"
    /\ ret = FALSE
    /\ retDF = FALSE
    /\ nops = 0
    /\ prog = <<>>
    /\ pc = 0
    /\ again = FALSE
    /\ fatal = FALSE

\* A store of any kind, built with or without reverse tracking; the DF
\* stores, whose getRevPts is not supported, with the constructor's default.
Init ==
    /\ ty \in PTDataTy
    /\ rev \in IF ty \in DFKinds THEN {TRUE} ELSE BOOLEAN
    /\ twin = FALSE
    /\ Fresh

\* The operation named o is called and returns: one more operation, on the
\* same store.  An aborted program calls nothing.
Called(o) ==
    /\ ~fatal
    /\ nops' = nops + 1
    /\ op' = o
    /\ UNCHANGED <<ty, rev, twin, prog, pc, again, fatal>>

\* A method f of PersistentPTData called on the store under test, in key
\* space s; f(P) is [pt, ret].
ApplyPT(f(_), s) ==
    CASE ty \in {"PersBase", "PersDiff"} ->
            /\ persPTData' = f(persPTData).pt
            /\ ret' = f(persPTData).ret
            /\ UNCHANGED <<df, inc, tlPTData, atPTData, retDF>>
      [] ty = "PersDataFlow" ->
            /\ df' = [df EXCEPT !.persPTData = f(df.persPTData).pt]
            /\ ret' = f(df.persPTData).ret
            /\ UNCHANGED <<persPTData, inc, tlPTData, atPTData, retDF>>
      [] ty = "PersIncDataFlow" ->
            /\ inc' = [inc EXCEPT !.persPTData = f(inc.persPTData).pt]
            /\ ret' = f(inc.persPTData).ret
            /\ df' = IF twin THEN [df EXCEPT !.persPTData = f(df.persPTData).pt] ELSE df
            /\ retDF' = IF twin THEN f(df.persPTData).ret ELSE retDF
            /\ UNCHANGED <<persPTData, tlPTData, atPTData>>
      [] ty = "PersVersioned" ->
            /\ tlPTData' = IF s = "tl" THEN f(tlPTData).pt ELSE tlPTData
            /\ atPTData' = IF s = "at" THEN f(atPTData).pt ELSE atPTData
            /\ ret' = f(PTOf(s)).ret
            /\ UNCHANGED <<persPTData, df, inc, retDF>>

\* The same for a method that returns nothing; f(P) is the object afterwards.
ApplyPTVoid(f(_), s) == ApplyPT(LAMBDA P : [pt |-> f(P), ret |-> FALSE], s)

AddPtsAt(s, k, d) ==
    /\ Called("addPts")
    /\ ApplyPT(LAMBDA P : PT_addPts(P, k, d), s)
    /\ UNCHANGED <<diffPtsMap, propaPtsMap>>

AddPts == \E s \in Spaces, k \in Keys, d \in Datas : AddPtsAt(s, k, d)

UnionPtsAt(s, k, src) ==
    /\ Called("unionPts")
    /\ ApplyPT(LAMBDA P : PT_unionPts(P, k, src), s)
    /\ UNCHANGED <<diffPtsMap, propaPtsMap>>

UnionPts == \E s \in Spaces, k \in Keys, src \in Keys : UnionPtsAt(s, k, src)

UnionPtsSetAt(s, k, S) ==
    /\ Called("unionPtsSet")
    /\ ApplyPT(LAMBDA P : PT_unionPtsSet(P, k, S), s)
    /\ UNCHANGED <<diffPtsMap, propaPtsMap>>

UnionPtsSet == \E s \in Spaces, k \in Keys, S \in DataSets : UnionPtsSetAt(s, k, S)

ClearPtsAt(s, k, d) ==
    /\ Called("clearPts")
    /\ ApplyPTVoid(LAMBDA P : PT_clearPts(P, k, d), s)
    /\ UNCHANGED <<diffPtsMap, propaPtsMap>>

ClearPts == \E s \in Spaces, k \in Keys, d \in Datas : ClearPtsAt(s, k, d)

ClearFullPtsAt(s, k) ==
    /\ Called("clearFullPts")
    /\ ApplyPTVoid(LAMBDA P : PT_clearFullPts(P, k), s)
    /\ UNCHANGED <<diffPtsMap, propaPtsMap>>

ClearFullPts == \E s \in Spaces, k \in Keys : ClearFullPtsAt(s, k)

GetPtsAt(s, k) ==
    /\ Called("getPts")
    /\ ApplyPTVoid(LAMBDA P : PT_getPts(P, k), s)
    /\ UNCHANGED <<diffPtsMap, propaPtsMap>>

GetPts == \E s \in Spaces, k \in Keys : GetPtsAt(s, k)

\* assert(cond) at the head of a method: whether the call ends in the fatal
\* error.  With assertions compiled in a false cond aborts; under NDEBUG the
\* assert is no code and the call goes on to its return statement.
assertAborts(cond) == IF cond THEN {FALSE} ELSE BOOLEAN

\* getRevPts(d) of the store under test, and getVersionedKeyRevPts(d) of a
\* Versioned store (s = "at").  The Basic, Diff and Versioned stores assert
\* this->rev and return the reverse set; the DF stores assert false and have
\* no return statement, so that what a call does under NDEBUG is undefined.
GetRevPtsAt(s, d) ==
    /\ ~fatal
    /\ nops' = nops + 1
    /\ op' = IF s = "at" THEN "getVersionedKeyRevPts" ELSE "getRevPts"
    /\ fatal' \in assertAborts(IF ty \in DFKinds THEN FALSE ELSE rev)
    /\ UNCHANGED <<ty, rev, persPTData, diffPtsMap, propaPtsMap, df, inc, twin,
                   tlPTData, atPTData, ret, retDF, prog, pc, again>>

GetRevPts == \E s \in Spaces, d \in Datas : GetRevPtsAt(s, d)

\* clear() of each store.
Clear ==
    /\ Called("clear")
    /\ ret' = FALSE
    /\ CASE ty = "PersBase" ->
              /\ persPTData' = PT_clear(persPTData)
              /\ UNCHANGED <<diffPtsMap, propaPtsMap, df, inc, tlPTData, atPTData>>
         [] ty = "PersDiff" ->
              /\ persPTData' = PT_clear(persPTData)
              /\ diffPtsMap' = EmptyMap
              /\ propaPtsMap' = EmptyMap
              /\ UNCHANGED <<df, inc, tlPTData, atPTData>>
         [] ty = "PersDataFlow" ->
              /\ df' = DF_clear(df)
              /\ UNCHANGED <<persPTData, diffPtsMap, propaPtsMap, inc, tlPTData, atPTData>>
         [] ty = "PersIncDataFlow" ->
              /\ inc' = DF_clear(inc)
              /\ df' = IF twin THEN DF_clear(df) ELSE df
              /\ UNCHANGED <<persPTData, diffPtsMap, propaPtsMap, tlPTData, atPTData>>
         [] ty = "PersVersioned" ->
              /\ tlPTData' = PT_clear(tlPTData)
              /\ atPTData' = PT_clear(atPTData)
              /\ UNCHANGED <<persPTData, diffPtsMap, propaPtsMap, df, inc>>
    /\ UNCHANGED retDF

\* ---- Diff store
DiffFrame == UNCHANGED <<persPTData, df, inc, tlPTData, atPTData, retDF>>

GetDiffPtsAt(k) ==
    /\ ty = "PersDiff"
    /\ Called("getDiffPts")
    /\ diffPtsMap' = Touch(diffPtsMap, k)
    /\ ret' = FALSE
    /\ UNCHANGED propaPtsMap
    /\ DiffFrame

GetDiffPts == \E k \in Keys : GetDiffPtsAt(k)

ComputeDiffPtsAt(k, S) ==
    /\ ty = "PersDiff"
    /\ Called("computeDiffPts")
    /\ diffPtsMap' = computeDiffPts(propaPtsMap, diffPtsMap, k, S).diff
    /\ propaPtsMap' = computeDiffPts(propaPtsMap, diffPtsMap, k, S).propa
    /\ ret' = computeDiffPts(propaPtsMap, diffPtsMap, k, S).ret
    /\ DiffFrame

ComputeDiffPts == \E k \in Keys, S \in DataSets : ComputeDiffPtsAt(k, S)

UpdatePropaPtsMapAt(src, dst) ==
    /\ ty = "PersDiff"
    /\ Called("updatePropaPtsMap")
    /\ propaPtsMap' = updatePropaPtsMap(propaPtsMap, src, dst)
    /\ ret' = FALSE
    /\ UNCHANGED diffPtsMap
    /\ DiffFrame

UpdatePropaPtsMap == \E src \in Keys, dst \in Keys : UpdatePropaPtsMapAt(src, dst)

ClearPropaPtsAt(k) ==
    /\ ty = "PersDiff"
    /\ Called("clearPropaPts")
    /\ propaPtsMap' = clearPropaPts(propaPtsMap, k)
    /\ ret' = FALSE
    /\ UNCHANGED diffPtsMap
    /\ DiffFrame

ClearPropaPts == \E k \in Keys : ClearPropaPtsAt(k)

\* ---- Versioned store: the unions from one key space into the other.
\* s is the key space of dst; src is a key of the other one.
CrossUnion(s, k, src) ==
    LET from == IF s = "tl" THEN atPTData ELSE tlPTData
        m == Touch(from.ptsMap, src)
        r == unionPtsFromId(PTOf(s), k, m[src])
    IN  /\ ty = "PersVersioned"
        /\ tlPTData' = IF s = "tl" THEN r.pt ELSE [from EXCEPT !.ptsMap = m]
        /\ atPTData' = IF s = "at" THEN r.pt ELSE [from EXCEPT !.ptsMap = m]
        /\ ret' = r.ret
        /\ UNCHANGED <<persPTData, diffPtsMap, propaPtsMap, df, inc, retDF>>

UnionPtsCrossAt(s, k, src) == Called("unionPtsCross") /\ CrossUnion(s, k, src)

UnionPtsCross == \E s \in {"tl", "at"}, k \in Keys, src \in Keys : UnionPtsCrossAt(s, k, src)

\* ---- DF stores: a method called on the store under test, fDF(D) being
\* what PersistentDFPTData does and fInc(I) what PersistentIncDFPTData
\* overrides it with, both [st, ret]; the twin gets the same call.
ApplyDF(fDF(_), fInc(_)) ==
    /\ ty \in DFKinds
    /\ IF ty = "PersDataFlow"
       THEN /\ df' = fDF(df).st
            /\ ret' = fDF(df).ret
            /\ UNCHANGED <<inc, retDF>>
       ELSE /\ inc' = fInc(inc).st
            /\ ret' = fInc(inc).ret
            /\ df' = IF twin THEN fDF(df).st ELSE df
            /\ retDF' = IF twin THEN fDF(df).ret ELSE retDF
    /\ UNCHANGED <<persPTData, diffPtsMap, propaPtsMap, tlPTData, atPTData>>

ApplyDFVoid(fDF(_), fInc(_)) ==
    ApplyDF(LAMBDA D : [st |-> fDF(D), ret |-> FALSE],
            LAMBDA I : [st |-> fInc(I), ret |-> FALSE])

GetDFInPtsSetAt(l, k) ==
    /\ Called("getDFInPtsSet")
    /\ ApplyDFVoid(LAMBDA D : getDFInPtsSet(D, l, k), LAMBDA I : getDFInPtsSet(I, l, k))

GetDFInPtsSet == \E l \in Locs, k \in Keys : GetDFInPtsSetAt(l, k)

GetDFOutPtsSetAt(l, k) ==
    /\ Called("getDFOutPtsSet")
    /\ ApplyDFVoid(LAMBDA D : getDFOutPtsSet(D, l, k), LAMBDA I : getDFOutPtsSet(I, l, k))

GetDFOutPtsSet == \E l \in Locs, k \in Keys : GetDFOutPtsSetAt(l, k)

UpdateDFInFromInAt(sL, sK, dL, dK) ==
    /\ Called("updateDFInFromIn")
    /\ ApplyDF(LAMBDA D : DF_updateDFInFromIn(D, sL, sK, dL, dK),
               LAMBDA I : Inc_updateDFInFromIn(I, sL, sK, dL, dK))

UpdateDFInFromIn ==
    \E sL \in Locs, sK \in Keys, dL \in Locs, dK \in Keys : UpdateDFInFromInAt(sL, sK, dL, dK)

UpdateDFInFromOutAt(sL, sK, dL, dK) ==
    /\ Called("updateDFInFromOut")
    /\ ApplyDF(LAMBDA D : DF_updateDFInFromOut(D, sL, sK, dL, dK),
               LAMBDA I : Inc_updateDFInFromOut(I, sL, sK, dL, dK))

UpdateDFInFromOut ==
    \E sL \in Locs, sK \in Keys, dL \in Locs, dK \in Keys : UpdateDFInFromOutAt(sL, sK, dL, dK)

UpdateDFOutFromInAt(sL, sK, dL, dK) ==
    /\ Called("updateDFOutFromIn")
    /\ ApplyDF(LAMBDA D : DF_updateDFOutFromIn(D, sL, sK, dL, dK),
               LAMBDA I : Inc_updateDFOutFromIn(I, sL, sK, dL, dK))

UpdateDFOutFromIn ==
    \E sL \in Locs, sK \in Keys, dL \in Locs, dK \in Keys : UpdateDFOutFromInAt(sL, sK, dL, dK)

UpdateAllDFInFromInAt(sL, sK, dL, dK) ==
    /\ Called("updateAllDFInFromIn")
    /\ ApplyDF(LAMBDA D : DF_updateAllDFInFromIn(D, sL, sK, dL, dK),
               LAMBDA I : Inc_updateAllDFInFromIn(I, sL, sK, dL, dK))

UpdateAllDFInFromIn ==
    \E sL \in Locs, sK \in Keys, dL \in Locs, dK \in Keys : UpdateAllDFInFromInAt(sL, sK, dL, dK)

UpdateAllDFInFromOutAt(sL, sK, dL, dK) ==
    /\ Called("updateAllDFInFromOut")
    /\ ApplyDF(LAMBDA D : DF_updateAllDFInFromOut(D, sL, sK, dL, dK),
               LAMBDA I : Inc_updateAllDFInFromOut(I, sL, sK, dL, dK))

UpdateAllDFInFromOut ==
    \E sL \in Locs, sK \in Keys, dL \in Locs, dK \in Keys : UpdateAllDFInFromOutAt(sL, sK, dL, dK)

UpdateAllDFOutFromInAt(l, v, su) ==
    /\ Called("updateAllDFOutFromIn")
    /\ ApplyDF(LAMBDA D : DF_updateAllDFOutFromIn(D, l, v, su),
               LAMBDA I : Inc_updateAllDFOutFromIn(I, l, v, su))

UpdateAllDFOutFromIn ==
    \E l \in Locs, v \in Keys, su \in BOOLEAN : UpdateAllDFOutFromInAt(l, v, su)

UpdateTLVPtsAt(sL, sK, dK) ==
    /\ Called("updateTLVPts")
    /\ ApplyDF(LAMBDA D : DF_updateTLVPts(D, sL, sK, dK),
               LAMBDA I : Inc_updateTLVPts(I, sL, sK, dK))

UpdateTLVPts == \E sL \in Locs, sK \in Keys, dK \in Keys : UpdateTLVPtsAt(sL, sK, dK)

UpdateATVPtsAt(sK, dL, dK) ==
    /\ Called("updateATVPts")
    /\ ApplyDF(LAMBDA D : DF_updateATVPts(D, sK, dL, dK),
               LAMBDA I : Inc_updateATVPts(I, sK, dL, dK))

UpdateATVPts == \E sK \in Keys, dL \in Locs, dK \in Keys : UpdateATVPtsAt(sK, dL, dK)

ClearAllDFOutUpdatedVarAt(l) ==
    /\ Called("clearAllDFOutUpdatedVar")
    /\ ApplyDFVoid(LAMBDA D : DF_clearAllDFOutUpdatedVar(D, l),
                   LAMBDA I : Inc_clearAllDFOutUpdatedVar(I, l))

ClearAllDFOutUpdatedVar == \E l \in Locs : ClearAllDFOutUpdatedVarAt(l)

\* ------------------------------------------------- a fixpoint driver
\* A solver drives the store by repeating a list of transfers until a whole
\* pass returns no true.  With the twin, the PersDataFlow store gets every
\* call the PersIncDataFlow store gets, from construction on.
\* The locations the calls of SpecDF and SpecDriver are at.
DeepLocs == {1}

Transfers ==
    {"updateDFInFromIn", "updateDFInFromOut", "updateDFOutFromIn",
     "updateAllDFInFromIn", "updateAllDFInFromOut"}

\* The calls a driver's list is made of: a method m and its arguments a.
TransferCalls ==
    [m : Transfers, a : DeepLocs \X Keys \X DeepLocs \X Keys]
    \cup [m : {"updateAllDFOutFromIn"}, a : DeepLocs \X Keys \X BOOLEAN]
    \cup [m : {"updateTLVPts"}, a : DeepLocs \X Keys \X Keys]
    \cup [m : {"updateATVPts"}, a : Keys \X DeepLocs \X Keys]

\* The call c on a PersistentDFPTData D, and on a PersistentIncDFPTData I.
CallDF(c, D) ==
    CASE c.m = "updateDFInFromIn" -> DF_updateDFInFromIn(D, c.a[1], c.a[2], c.a[3], c.a[4])
      [] c.m = "updateDFInFromOut" -> DF_updateDFInFromOut(D, c.a[1], c.a[2], c.a[3], c.a[4])
      [] c.m = "updateDFOutFromIn" -> DF_updateDFOutFromIn(D, c.a[1], c.a[2], c.a[3], c.a[4])
      [] c.m = "updateAllDFInFromIn" -> DF_updateAllDFInFromIn(D, c.a[1], c.a[2], c.a[3], c.a[4])
      [] c.m = "updateAllDFInFromOut" -> DF_updateAllDFInFromOut(D, c.a[1], c.a[2], c.a[3], c.a[4])
      [] c.m = "updateAllDFOutFromIn" -> DF_updateAllDFOutFromIn(D, c.a[1], c.a[2], c.a[3])
      [] c.m = "updateTLVPts" -> DF_updateTLVPts(D, c.a[1], c.a[2], c.a[3])
      [] c.m = "updateATVPts" -> DF_updateATVPts(D, c.a[1], c.a[2], c.a[3])

CallInc(c, I) ==
    CASE c.m = "updateDFInFromIn" -> Inc_updateDFInFromIn(I, c.a[1], c.a[2], c.a[3], c.a[4])
      [] c.m = "updateDFInFromOut" -> Inc_updateDFInFromOut(I, c.a[1], c.a[2], c.a[3], c.a[4])
      [] c.m = "updateDFOutFromIn" -> Inc_updateDFOutFromIn(I, c.a[1], c.a[2], c.a[3], c.a[4])
      [] c.m = "updateAllDFInFromIn" -> Inc_updateAllDFInFromIn(I, c.a[1], c.a[2], c.a[3], c.a[4])
      [] c.m = "updateAllDFInFromOut" -> Inc_updateAllDFInFromOut(I, c.a[1], c.a[2], c.a[3], c.a[4])
      [] c.m = "updateAllDFOutFromIn" -> Inc_updateAllDFOutFromIn(I, c.a[1], c.a[2], c.a[3])
      [] c.m = "updateTLVPts" -> Inc_updateTLVPts(I, c.a[1], c.a[2], c.a[3])
      [] c.m = "updateATVPts" -> Inc_updateATVPts(I, c.a[1], c.a[2], c.a[3])

\* The two stores hold the same sets: the state a driver starts from.
SameSets ==
    /\ \A k \in Keys : Pts(df.persPTData, k) = Pts(inc.persPTData, k)
    /\ \A l \in Locs, k \in Keys :
          DFIn(df, l, k) = DFIn(inc, l, k) /\ DFOut(df, l, k) = DFOut(inc, l, k)

\* The driver starts: its list of transfers is taken as the first pass goes.
StartDriver ==
    /\ twin
    /\ pc = 0
    /\ SameSets
    /\ pc' = 1
    /\ op' = "startDriver"
    /\ UNCHANGED <<ty, rev, persPTData, diffPtsMap, propaPtsMap, df, inc, twin,
                   tlPTData, atPTData, ret, retDF, nops, prog, again, fatal>>

\* The driver calls c, the transfer at pc of its list: any transfer in the
\* first pass, which makes the list, and prog[pc] in the later ones.  After
\* the last transfer of a pass it goes round again if a transfer of the pass
\* returned true in either store, and has reached the fixpoint if none did.
DriverStepAt(c) ==
    /\ pc \in 1..DriverLen
    /\ pc <= Len(prog) => c = prog[pc]
    /\ prog' = IF pc <= Len(prog) THEN prog ELSE Append(prog, c)
    /\ ApplyDF(LAMBDA D : CallDF(c, D), LAMBDA I : CallInc(c, I))
    /\ op' = c.m
    /\ LET ch == again \/ ret' \/ retDF'
       IN  IF pc < DriverLen
           THEN pc' = pc + 1 /\ again' = ch
           ELSE /\ pc' = IF ch THEN 1 ELSE DriverLen + 1
                /\ again' = FALSE
    /\ UNCHANGED <<ty, rev, twin, nops, fatal>>

DriverStep == \E c \in TransferCalls : DriverStepAt(c)

AtFixpoint == pc = DriverLen + 1

\* ------------------------------------- a driver of union-style calls
\* The calls that only add to sets: addPts and unionPts of every store, the
\* transfers of the DF stores, the unions across the key spaces of a
\* Versioned store.
ConvCalls ==
    [m : {"addPts"}, a : Spaces \X Keys \X Datas]
    \cup [m : {"unionPts"}, a : Spaces \X Keys \X Keys]
    \cup (IF ty \in DFKinds THEN TransferCalls ELSE {})
    \cup (IF ty = "PersVersioned"
          THEN [m : {"unionPtsCross"}, a : {"tl", "at"} \X Keys \X Keys]
          ELSE {})

\* The store executes the call c.
CallStore(c) ==
    CASE c.m = "addPts" ->
            /\ ApplyPT(LAMBDA P : PT_addPts(P, c.a[2], c.a[3]), c.a[1])
            /\ UNCHANGED <<diffPtsMap, propaPtsMap>>
      [] c.m = "unionPts" ->
            /\ ApplyPT(LAMBDA P : PT_unionPts(P, c.a[2], c.a[3]), c.a[1])
            /\ UNCHANGED <<diffPtsMap, propaPtsMap>>
      [] c.m = "unionPtsCross" -> CrossUnion(c.a[1], c.a[2], c.a[3])
      [] OTHER -> ApplyDF(LAMBDA D : CallDF(c, D), LAMBDA I : CallInc(c, I))

StartConv ==
    /\ ~twin
    /\ pc = 0
    /\ pc' = 1
    /\ op' = "startDriver"
    /\ UNCHANGED <<ty, rev, persPTData, diffPtsMap, propaPtsMap, df, inc, twin,
                   tlPTData, atPTData, ret, retDF, nops, prog, again, fatal>>

\* The driver calls c, the call at pc of its list: any call in the first
\* pass, which makes the list, and prog[pc] in the later ones.  After the
\* last call of a pass it goes round again if a call of the pass returned
\* true, and stops if none did.
ConvStepAt(c) ==
    /\ ~twin
    /\ pc \in 1..ConvLen
    /\ pc <= Len(prog) => c = prog[pc]
    /\ prog' = IF pc <= Len(prog) THEN prog ELSE Append(prog, c)
    /\ CallStore(c)
    /\ op' = c.m
    /\ LET ch == again \/ ret'
       IN  IF pc < ConvLen
           THEN pc' = pc + 1 /\ again' = ch
           ELSE /\ pc' = IF ch THEN 1 ELSE ConvLen + 1
                /\ again' = FALSE
    /\ UNCHANGED <<ty, rev, twin, nops, fatal>>

ConvStep == \E c \in ConvCalls : ConvStepAt(c)

Stopped == pc = ConvLen + 1

\* ------------------------------------------------------ specifications
\* Any store, any call, MaxOps calls.
Next ==
    \/ nops < MaxOps /\ AddPts
    \/ nops < MaxOps /\ UnionPts
    \/ nops < MaxOps /\ UnionPtsSet
    \/ nops < MaxOps /\ ClearPts
    \/ nops < MaxOps /\ ClearFullPts
    \/ nops < MaxOps /\ GetPts
    \/ nops < MaxOps /\ Clear
    \/ nops < MaxOps /\ GetDiffPts
    \/ nops < MaxOps /\ ComputeDiffPts
    \/ nops < MaxOps /\ UpdatePropaPtsMap
    \/ nops < MaxOps /\ ClearPropaPts
    \/ nops < MaxOps /\ UnionPtsCross
    \/ nops < MaxOps /\ GetDFInPtsSet
    \/ nops < MaxOps /\ GetDFOutPtsSet
    \/ nops < MaxOps /\ UpdateDFInFromIn
    \/ nops < MaxOps /\ UpdateDFInFromOut
    \/ nops < MaxOps /\ UpdateDFOutFromIn
    \/ nops < MaxOps /\ UpdateAllDFInFromIn
    \/ nops < MaxOps /\ UpdateAllDFInFromOut
    \/ nops < MaxOps /\ UpdateAllDFOutFromIn
    \/ nops < MaxOps /\ UpdateTLVPts
    \/ nops < MaxOps /\ UpdateATVPts
    \/ nops < MaxOps /\ ClearAllDFOutUpdatedVar

Spec == Init /\ [][Next]_vars

\* A Basic store, MaxBaseOps calls.
InitBase == Init /\ ty = "PersBase"

NextBase ==
    \/ nops < MaxBaseOps /\ AddPts
    \/ nops < MaxBaseOps /\ UnionPts
    \/ nops < MaxBaseOps /\ UnionPtsSet
    \/ nops < MaxBaseOps /\ ClearPts
    \/ nops < MaxBaseOps /\ ClearFullPts
    \/ nops < MaxBaseOps /\ GetPts
    \/ nops < MaxBaseOps /\ Clear

SpecBase == InitBase /\ [][NextBase]_vars

\* A Diff store, MaxDiffOps calls.
InitDiff == Init /\ ty = "PersDiff"

NextDiff ==
    \/ nops < MaxDiffOps /\ AddPts
    \/ nops < MaxDiffOps /\ UnionPts
    \/ nops < MaxDiffOps /\ UnionPtsSet
    \/ nops < MaxDiffOps /\ ClearPts
    \/ nops < MaxDiffOps /\ ClearFullPts
    \/ nops < MaxDiffOps /\ GetPts
    \/ nops < MaxDiffOps /\ Clear
    \/ nops < MaxDiffOps /\ GetDiffPts
    \/ nops < MaxDiffOps /\ ComputeDiffPts
    \/ nops < MaxDiffOps /\ UpdatePropaPtsMap
    \/ nops < MaxDiffOps /\ ClearPropaPts

SpecDiff == InitDiff /\ [][NextDiff]_vars

\* A DF or an IncDF store, MaxDFOps calls, all at the locations DeepLocs.
InitDF == Init /\ ty \in DFKinds

NextDF ==
    \/ nops < MaxDFOps /\ AddPts
    \/ nops < MaxDFOps /\ UnionPts
    \/ nops < MaxDFOps /\ UnionPtsSet
    \/ nops < MaxDFOps /\ ClearPts
    \/ nops < MaxDFOps /\ ClearFullPts
    \/ nops < MaxDFOps /\ GetPts
    \/ nops < MaxDFOps /\ Clear
    \/ nops < MaxDFOps /\ \E l \in DeepLocs, k \in Keys : GetDFInPtsSetAt(l, k)
    \/ nops < MaxDFOps /\ \E l \in DeepLocs, k \in Keys : GetDFOutPtsSetAt(l, k)
    \/ nops < MaxDFOps /\ \E sL \in DeepLocs, sK \in Keys, dL \in DeepLocs, dK \in Keys :
                             UpdateDFInFromInAt(sL, sK, dL, dK)
    \/ nops < MaxDFOps /\ \E sL \in DeepLocs, sK \in Keys, dL \in DeepLocs, dK \in Keys :
                             UpdateDFInFromOutAt(sL, sK, dL, dK)
    \/ nops < MaxDFOps /\ \E sL \in DeepLocs, sK \in Keys, dL \in DeepLocs, dK \in Keys :
                             UpdateDFOutFromInAt(sL, sK, dL, dK)
    \/ nops < MaxDFOps /\ \E sL \in DeepLocs, sK \in Keys, dL \in DeepLocs, dK \in Keys :
                             UpdateAllDFInFromInAt(sL, sK, dL, dK)
    \/ nops < MaxDFOps /\ \E sL \in DeepLocs, sK \in Keys, dL \in DeepLocs, dK \in Keys :
                             UpdateAllDFInFromOutAt(sL, sK, dL, dK)
    \/ nops < MaxDFOps /\ \E l \in DeepLocs, v \in Keys, su \in BOOLEAN :
                             UpdateAllDFOutFromInAt(l, v, su)
    \/ nops < MaxDFOps /\ \E sL \in DeepLocs, sK \in Keys, dK \in Keys :
                             UpdateTLVPtsAt(sL, sK, dK)
    \/ nops < MaxDFOps /\ \E sK \in Keys, dL \in DeepLocs, dK \in Keys :
                             UpdateATVPtsAt(sK, dL, dK)
    \/ nops < MaxDFOps /\ \E l \in DeepLocs : ClearAllDFOutUpdatedVarAt(l)

SpecDF == InitDF /\ [][NextDF]_vars

\* A DF or an IncDF store, MaxLocOps calls at any of the locations: the
\* calls that reach one location while another holds sets and flags.
InitLocs == Init /\ ty \in DFKinds

NextLocs ==
    \/ nops < MaxLocOps /\ AddPts
    \/ nops < MaxLocOps /\ Clear
    \/ nops < MaxLocOps /\ UpdateDFInFromOut
    \/ nops < MaxLocOps /\ UpdateDFOutFromIn
    \/ nops < MaxLocOps /\ UpdateAllDFOutFromIn
    \/ nops < MaxLocOps /\ UpdateATVPts
    \/ nops < MaxLocOps /\ ClearAllDFOutUpdatedVar

SpecLocs == InitLocs /\ [][NextLocs]_vars

\* An IncDF store and its twin: MaxSetupOps calls that seed the sets, then a
\* driver.
InitDriver ==
    /\ ty = "PersIncDataFlow"
    /\ rev = TRUE
    /\ twin = TRUE
    /\ Fresh

NextDriver ==
    \/ pc = 0 /\ nops < MaxSetupOps /\ AddPts
    \/ pc = 0 /\ nops < MaxSetupOps /\ \E sK \in Keys, dL \in DeepLocs, dK \in Keys :
                                          UpdateATVPtsAt(sK, dL, dK)
    \/ pc = 0 /\ nops < MaxSetupOps
              /\ \E sL \in DeepLocs, sK \in Keys, dL \in DeepLocs, dK \in Keys :
                    UpdateAllDFInFromOutAt(sL, sK, dL, dK)
    \/ StartDriver
    \/ DriverStep

SpecDriver == InitDriver /\ [][NextDriver]_vars

\* A store of any kind under a driver of union-style calls: MaxSeedOps
\* addPts calls, then the driver, which goes on as long as it can.
InitConv == Init

NextConv ==
    \/ pc = 0 /\ nops < MaxSeedOps /\ AddPts
    \/ StartConv
    \/ ConvStep

SpecConv == InitConv /\ [][NextConv]_vars /\ WF_vars(ConvStep)

\* An IncDF store and its twin, MaxTwinOps calls of any kind, the same to
\* both, at the locations DeepLocs.
InitTwin == InitDriver

NextTwin ==
    \/ nops < MaxTwinOps /\ AddPts
    \/ nops < MaxTwinOps /\ UnionPts
    \/ nops < MaxTwinOps /\ UnionPtsSet
    \/ nops < MaxTwinOps /\ ClearPts
    \/ nops < MaxTwinOps /\ ClearFullPts
    \/ nops < MaxTwinOps /\ Clear
    \/ nops < MaxTwinOps /\ \E sL \in DeepLocs, sK \in Keys, dL \in DeepLocs, dK \in Keys :
                               UpdateDFInFromInAt(sL, sK, dL, dK)
    \/ nops < MaxTwinOps /\ \E sL \in DeepLocs, sK \in Keys, dL \in DeepLocs, dK \in Keys :
                               UpdateDFInFromOutAt(sL, sK, dL, dK)
    \/ nops < MaxTwinOps /\ \E sL \in DeepLocs, sK \in Keys, dL \in DeepLocs, dK \in Keys :
                               UpdateDFOutFromInAt(sL, sK, dL, dK)
    \/ nops < MaxTwinOps /\ \E sL \in DeepLocs, sK \in Keys, dL \in DeepLocs, dK \in Keys :
                               UpdateAllDFInFromInAt(sL, sK, dL, dK)
    \/ nops < MaxTwinOps /\ \E sL \in DeepLocs, sK \in Keys, dL \in DeepLocs, dK \in Keys :
                               UpdateAllDFInFromOutAt(sL, sK, dL, dK)
    \/ nops < MaxTwinOps /\ \E l \in DeepLocs, v \in Keys, su \in BOOLEAN :
                               UpdateAllDFOutFromInAt(l, v, su)
    \/ nops < MaxTwinOps /\ \E sL \in DeepLocs, sK \in Keys, dK \in Keys :
                               UpdateTLVPtsAt(sL, sK, dK)
    \/ nops < MaxTwinOps /\ \E sK \in Keys, dL \in DeepLocs, dK \in Keys :
                               UpdateATVPtsAt(sK, dL, dK)
    \/ nops < MaxTwinOps /\ \E l \in DeepLocs : ClearAllDFOutUpdatedVarAt(l)

SpecTwin == InitTwin /\ [][NextTwin]_vars

\* A Versioned store, MaxVerOps calls.
InitVer == Init /\ ty = "PersVersioned"

NextVer ==
    \/ nops < MaxVerOps /\ AddPts
    \/ nops < MaxVerOps /\ UnionPts
    \/ nops < MaxVerOps /\ UnionPtsSet
    \/ nops < MaxVerOps /\ UnionPtsCross
    \/ nops < MaxVerOps /\ ClearPts
    \/ nops < MaxVerOps /\ ClearFullPts
    \/ nops < MaxVerOps /\ GetPts
    \/ nops < MaxVerOps /\ Clear

SpecVer == InitVer /\ [][NextVer]_vars

\* A store of any kind built with or without reverse tracking, MaxRevOps
\* calls, the reverse queries among them.
InitRev ==
    /\ ty \in PTDataTy
    /\ rev \in BOOLEAN
    /\ twin = FALSE
    /\ Fresh

NextRev ==
    \/ nops < MaxRevOps /\ AddPts
    \/ nops < MaxRevOps /\ UnionPts
    \/ nops < MaxRevOps /\ UnionPtsCross
    \/ nops < MaxRevOps /\ ClearPts
    \/ nops < MaxRevOps /\ ClearFullPts
    \/ nops < MaxRevOps /\ GetRevPts

SpecRev == InitRev /\ [][NextRev]_vars

\* ---------------------------------------------------------- properties
\* C1: in a Basic store built with reverse tracking, after every operation,
\* for all Keys k and Data d: d is in getPts(k) iff k is in getRevPts(d).
ReverseConsistency ==
    (ty = "PersBase" /\ rev) =>
        \A k \in Keys, d \in Datas :
            (d \in Pts(persPTData, k)) <=> (k \in getRevPts(persPTData, d))

\* A key has just been cleared with clearFullPts while another key still
\* points to a datum the cleared key pointed to.
ReverseConsistencyWitness ==
    /\ ty = "PersBase" /\ rev /\ op = "clearFullPts" /\ nops >= 3
    /\ \E k \in Keys : \E k2 \in Keys \ {k} :
          /\ k \in DOMAIN persPTData.ptsMap /\ Pts(persPTData, k) = {}
          /\ Pts(persPTData, k2) # {}
          /\ getRevPts(persPTData, 1) = {k2}

\* C3: a step addPts or unionPts (from a key, from a set, or across the key
\* spaces of a Versioned store) shrinks no key's points-to set: for every key
\* k, getPts(k) after the step is a superset of getPts(k) before it.
Monotonicity ==
    [][(AddPts \/ UnionPts \/ UnionPtsSet \/ UnionPtsCross) =>
          \A s \in Spaces, k \in Keys : Pts(PTOf(s), k) \subseteq Pts(PTOf(s), k)']_vars

\* A unionPts has just grown a key's set to both data.
MonotonicityWitness ==
    /\ op = "unionPts" /\ ret
    /\ \E s \in Spaces, k \in Keys : Pts(PTOf(s), k) = Datas

\* C9 as claimed: getPts(k) leaves the Key->ID map entries, the reverse map,
\* inUsePointsToSets() and topN(n) as they were.
GetPtsNonMutating ==
    [][\A s \in Spaces, k \in Keys :
          GetPtsAt(s, k) =>
              /\ PTOf(s)' = PTOf(s)
              /\ inUsePointsToSets' = inUsePointsToSets
              /\ \A n \in 0..NumKeys : topN(n)' = topN(n)]_vars

\* C9 as amended: getPts(k) leaves every points-to set, the reverse map and
\* topN(n) as they were; the Key->ID map has an entry for k afterwards, its only
\* new one, and inUsePointsToSets() is the same or one larger; with an entry
\* for k before the call, nothing changes.
GetPtsCreatesEmptyEntry ==
    [][\A s \in Spaces, k \in Keys :
          GetPtsAt(s, k) =>
              /\ \A k2 \in Keys : Pts(PTOf(s), k2)' = Pts(PTOf(s), k2)
              /\ PTOf(s)'.revPtsMap = PTOf(s).revPtsMap
              /\ \A n \in 0..NumKeys : topN(n)' = topN(n)
              /\ DOMAIN PTOf(s)'.ptsMap = DOMAIN PTOf(s).ptsMap \cup {k}
              /\ inUsePointsToSets' \in {inUsePointsToSets, inUsePointsToSets + 1}
              /\ k \in DOMAIN PTOf(s).ptsMap =>
                    PTOf(s)' = PTOf(s) /\ inUsePointsToSets' = inUsePointsToSets]_vars

\* getPts has just been called on a key never written, in a store where
\* another key points to something: two IDs are in use.
GetPtsWitness ==
    /\ op = "getPts"
    /\ \E s \in Spaces, k \in Keys : \E k2 \in Keys \ {k} :
          /\ k \in DOMAIN PTOf(s).ptsMap /\ Pts(PTOf(s), k) = {}
          /\ Pts(PTOf(s), k2) # {}
    /\ inUsePointsToSets = 2

\* C4 as claimed: in a Diff store, after every operation, propa[k] is a
\* subset of pts[k] for every key k.
PropaSubset ==
    ty = "PersDiff" => \A k \in Keys : Propa(k) \subseteq Pts(persPTData, k)

\* C4 as amended: propa[k] within pts[k] for every k holds of a new Diff
\* store, holds after clear(), and is kept by getPts, getDiffPts, addPts,
\* unionPts, updatePropaPtsMap, clearPropaPts and by computeDiffPts(k, S) with S
\* a subset of getPts(k).
PropaSubsetPreserved ==
    /\ PropaSubset
    /\ [][/\ Clear => PropaSubset'
          /\ (/\ PropaSubset
              /\ \/ AddPts \/ UnionPts \/ UnionPtsSet \/ GetPts \/ GetDiffPts
                 \/ UpdatePropaPtsMap \/ ClearPropaPts
                 \/ \E k \in Keys : \E S \in SUBSET Pts(persPTData, k) :
                       ComputeDiffPtsAt(k, S))
             => PropaSubset']_vars

\* computeDiffPts has just propagated a non-empty part of a key's set.
PropaSubsetWitness ==
    /\ ty = "PersDiff" /\ op = "computeDiffPts" /\ ret
    /\ PropaSubset
    /\ \E k \in Keys : Propa(k) # {} /\ Propa(k) # Pts(persPTData, k)

\* C5 as claimed: after computeDiffPts(k, S), getDiffPts(k) united with what
\* propa[k] was before the call is S, and the two are disjoint.
DiffLawAsClaimed ==
    [][\A k \in Keys, S \in DataSets :
          ComputeDiffPtsAt(k, S) =>
              /\ Diff(k)' \cup Propa(k) = S
              /\ Diff(k)' \cap Propa(k) = {}]_vars

\* C5 as amended: after computeDiffPts(k, S), getDiffPts(k) is S without what
\* propa[k] was before the call: disjoint from it, and their union is S if and
\* only if that earlier propa[k] was a subset of S.
DiffLaw ==
    [][\A k \in Keys, S \in DataSets :
          ComputeDiffPtsAt(k, S) =>
              /\ Diff(k)' = S \ Propa(k)
              /\ Diff(k)' \cap Propa(k) = {}
              /\ (Diff(k)' \cup Propa(k) = S) <=> (Propa(k) \subseteq S)]_vars

\* computeDiffPts has just been called on a key that had propagated part of
\* the set already: the diff is the rest.
DiffLawWitness ==
    /\ ty = "PersDiff" /\ op = "computeDiffPts" /\ ret
    /\ \E k \in Keys : Diff(k) # {} /\ Propa(k) \ Diff(k) # {}

\* C6: computeDiffPts(k, S) leaves propa[k] = S, and only computeDiffPts,
\* updatePropaPtsMap and clearPropaPts on k, and clear, change propa[k]; called
\* with propa[k] = S, which is what a second call with the same S and no
\* operation on k in between finds, computeDiffPts(k, S) returns false and
\* leaves getDiffPts(k) empty; and computeDiffPts returns true exactly when
\* the resulting getDiffPts(k) is not empty.
DiffConvergence ==
    [][\A k \in Keys :
          /\ Propa(k)' # Propa(k) =>
                \/ \E S \in DataSets : ComputeDiffPtsAt(k, S)
                \/ \E src \in Keys : UpdatePropaPtsMapAt(src, k)
                \/ ClearPropaPtsAt(k)
                \/ Clear
          /\ \A S \in DataSets :
                ComputeDiffPtsAt(k, S) =>
                    /\ Propa(k)' = S
                    /\ ret' <=> (Diff(k)' # {})
                    /\ Propa(k) = S => (~ret' /\ Diff(k)' = {})]_vars

\* computeDiffPts has just returned false on a key whose non-empty set is
\* all propagated.
DiffConvergenceWitness ==
    /\ ty = "PersDiff" /\ op = "computeDiffPts" /\ ~ret /\ nops >= 2
    /\ \E k \in Keys : Propa(k) # {} /\ k \in DOMAIN diffPtsMap /\ Diff(k) = {}

StrongUpdateAsClaimed ==
    [][\A l \in Locs, v \in Keys :
          UpdateAllDFOutFromInAt(l, v, TRUE) =>
              /\ Get2(DFStore.dfOutPtsMap, l, v)' = Get2(DFStore.dfOutPtsMap, l, v)
              /\ hasDFOutSetVar(DFStore, l, v)' <=> hasDFOutSetVar(DFStore, l, v)
              /\ \A k \in Keys \ {v} :
                    hasDFInSetVar(DFStore, l, k) =>
                        DFIn(DFStore, l, k)' \subseteq DFOut(DFStore, l, k)']_vars

\* C8 as amended: updateAllDFOutFromIn(l, v, true) leaves dfOut[l][v] as it was
\* and creates no OUT entry for v, in both stores.  Afterwards, in DFStore,
\* dfOut[l][k] is a superset of dfIn[l][k] for every other key k with an entry in
\* dfIn[l]; in IncDFStore that holds for every other key k that was in
\* inDirty[l] at the call, and dfOut[l][k] of the other keys is as it was.
StrongUpdate ==
    [][\A l \in Locs, v \in Keys :
          UpdateAllDFOutFromInAt(l, v, TRUE) =>
              /\ Get2(DFStore.dfOutPtsMap, l, v)' = Get2(DFStore.dfOutPtsMap, l, v)
              /\ hasDFOutSetVar(DFStore, l, v)' <=> hasDFOutSetVar(DFStore, l, v)
              /\ ty = "PersDataFlow" =>
                    \A k \in Keys \ {v} :
                        hasDFInSetVar(df, l, k) => DFIn(df, l, k)' \subseteq DFOut(df, l, k)'
              /\ ty = "PersIncDataFlow" =>
                    \A k \in Keys \ {v} :
                        IF k \in getDFInUpdatedVar(inc, l)
                        THEN DFIn(inc, l, k)' \subseteq DFOut(inc, l, k)'
                        ELSE DFOut(inc, l, k)' = DFOut(inc, l, k)]_vars

\* updateAllDFOutFromIn has just returned true in an IncDF store having
\* copied the IN set of a key w to OUT, while a key v with a non-empty IN set
\* is still in inDirty: v was the singleton of a strong update.
StrongUpdateWitness ==
    /\ ty = "PersIncDataFlow" /\ op = "updateAllDFOutFromIn" /\ ret
    /\ \E l \in Locs, v \in Keys : \E w \in Keys \ {v} :
          /\ v \in getDFInUpdatedVar(inc, l) /\ DFIn(inc, l, v) # {}
          /\ w \notin getDFInUpdatedVar(inc, l) /\ DFIn(inc, l, w) # {}
          /\ DFIn(inc, l, w) \subseteq DFOut(inc, l, w)

\* C10 as claimed: after clear() on a DFStore or IncDFStore pts is empty, no
\* location has an IN or an OUT set, every IN and OUT set reads empty and no
\* variable is in any inDirty[l] or outDirty[l].
ClearEmptiesAll ==
    (ty \in DFKinds /\ op = "clear") =>
        /\ DOMAIN DFStore.persPTData.ptsMap = {}
        /\ \A l \in Locs : ~hasDFInSet(DFStore, l) /\ ~hasDFOutSet(DFStore, l)
        /\ \A l \in Locs, k \in Keys :
              DFIn(DFStore, l, k) = {} /\ DFOut(DFStore, l, k) = {}
        /\ ty = "PersIncDataFlow" =>
              \A l \in Locs : getDFInUpdatedVar(inc, l) = {} /\ getDFOutUpdatedVar(inc, l) = {}

\* C7 as claimed: at the fixpoint of a driver, getDFInPtsSet(l, k) and
\* getDFOutPtsSet(l, k) are equal in the two stores for every l and k.
IncEquivalentAsClaimed ==
    AtFixpoint =>
        \A l \in Locs, k \in Keys :
            DFIn(inc, l, k) = DFIn(df, l, k) /\ DFOut(inc, l, k) = DFOut(df, l, k)

\* The transfers of the IncDF store that do not look at the dirty sets.
Unguarded == {"updateAllDFInFromIn", "updateAllDFInFromOut", "updateATVPts"}

\* C7 as amended: at the fixpoint of a driver every IN and OUT set of the
\* IncDF store is a subset of the DF store's, and they are equal when the
\* driver's transfers are among updateAllDFInFromIn, updateAllDFInFromOut and
\* updateATVPts.
IncWithinDF ==
    AtFixpoint =>
        /\ \A l \in Locs, k \in Keys :
              DFIn(inc, l, k) \subseteq DFIn(df, l, k)
              /\ DFOut(inc, l, k) \subseteq DFOut(df, l, k)
        /\ (\A i \in 1..Len(prog) : prog[i].m \in Unguarded) =>
              \A l \in Locs, k \in Keys :
                  DFIn(inc, l, k) = DFIn(df, l, k) /\ DFOut(inc, l, k) = DFOut(df, l, k)

\* A driver of unguarded transfers has reached its fixpoint having filled an
\* IN set: two calls cannot have done it before the driver started.
IncWithinDFWitness ==
    /\ AtFixpoint /\ nops <= 2
    /\ \A i \in 1..Len(prog) : prog[i].m \in Unguarded
    /\ \E l \in Locs, k \in Keys : DFIn(inc, l, k) # {}

\* C11 as claimed: getRevPts and getVersionedKeyRevPts end in the fatal error
\* on a Basic, Diff or Versioned store built without reverse tracking and on a
\* DF or IncDF store whatever the flag, and never fail on a Basic, Diff or
\* Versioned store built with it.
RevUnsupportedFails ==
    [][\A s \in Spaces, d \in Datas :
          GetRevPtsAt(s, d) => (fatal' <=> (ty \in DFKinds \/ ~rev))]_vars

\* C12: in an IncDF store, updateDFInFromIn(sL, sK, dL, dK) called while sK is
\* not in inDirty[sL], and updateDFInFromOut(sL, sK, dL, dK) called while sK is
\* not in outDirty[sL], return false and change nothing of the store: every
\* map entry, every IN and OUT set and every dirty set is as it was.  Stated
\* from the effect's side: a call that returned true or changed the store was
\* not such a call.
IncrementalSkip ==
    [][(ty = "PersIncDataFlow" /\ (ret' \/ inc' # inc)) =>
          \A sL \in Locs, sK \in Keys :
              /\ sK \notin getDFInUpdatedVar(inc, sL) =>
                    ~ \E dL \in Locs, dK \in Keys : UpdateDFInFromInAt(sL, sK, dL, dK)
              /\ sK \notin getDFOutUpdatedVar(inc, sL) =>
                    ~ \E dL \in Locs, dK \in Keys : UpdateDFInFromOutAt(sL, sK, dL, dK)]_vars

\* updateDFInFromIn has just returned false in an IncDF store where no
\* variable is in any inDirty[l], so that the call was skipped, while an IN
\* set has elements another IN set lacks.
IncrementalSkipWitness ==
    /\ ty = "PersIncDataFlow" /\ op = "updateDFInFromIn" /\ ~ret
    /\ \A l \in Locs : getDFInUpdatedVar(inc, l) = {}
    /\ \E l \in Locs, k \in Keys, l2 \in Locs, k2 \in Keys :
          ~(DFIn(inc, l, k) \subseteq DFIn(inc, l2, k2))

\* C13: in a Versioned store with reverse tracking, a unionPts across the key
\* spaces makes getPts(dst) its old value united with getPts(src) and leaves
\* every points-to set and the reverse map of the source's key space as they
\* were; and after every operation reverse consistency holds in each space:
\* d in getPts(k) iff k in getRevPts(d), d in getPts(vk) iff vk in
\* getVersionedKeyRevPts(d).
CrossSpaceUnion ==
    /\ [](ty = "PersVersioned" /\ rev =>
            \A k \in Keys, d \in Datas :
                /\ (d \in Pts(tlPTData, k)) <=> (k \in getRevPts(tlPTData, d))
                /\ (d \in Pts(atPTData, k)) <=> (k \in getRevPts(atPTData, d)))
    /\ [][\A k \in Keys, src \in Keys :
            /\ (rev /\ UnionPtsCrossAt("at", k, src)) =>
                  /\ Pts(atPTData, k)' = Pts(atPTData, k) \cup Pts(tlPTData, src)
                  /\ \A k2 \in Keys : Pts(tlPTData, k2)' = Pts(tlPTData, k2)
                  /\ tlPTData'.revPtsMap = tlPTData.revPtsMap
            /\ (rev /\ UnionPtsCrossAt("tl", k, src)) =>
                  /\ Pts(tlPTData, k)' = Pts(tlPTData, k) \cup Pts(atPTData, src)
                  /\ \A k2 \in Keys : Pts(atPTData, k2)' = Pts(atPTData, k2)
                  /\ atPTData'.revPtsMap = atPTData.revPtsMap]_vars

\* A unionPts across the spaces has just given a VersionedKey the set of a
\* Key: the datum's reverse sets are that VersionedKey and that Key.
CrossSpaceUnionWitness ==
    /\ ty = "PersVersioned" /\ rev /\ op = "unionPtsCross" /\ ret
    /\ \E k \in Keys, vk \in Keys, d \in Datas :
          /\ Pts(tlPTData, k) = {d} /\ Pts(atPTData, vk) = {d}
          /\ getRevPts(tlPTData, d) = {k}
          /\ getRevPts(atPTData, d) = {vk}

\* C14: clearPts(k, d) called when d is not in getPts(k) leaves the ID and
\* the set of every key (an absent key reading as the empty set's ID) and
\* every reverse set as they were; and a second clearFullPts(k) right after a
\* clearFullPts(k) would leave the store as the first left it.
ClearIdempotent ==
    [][\A s \in Spaces, k \in Keys :
          /\ \A d \in Datas \ Pts(PTOf(s), k) :
                ClearPtsAt(s, k, d) =>
                    /\ \A k2 \in Keys :
                          Get(PTOf(s).ptsMap, k2)' = Get(PTOf(s).ptsMap, k2)
                    /\ PTOf(s)'.revPtsMap = PTOf(s).revPtsMap
          /\ ClearFullPtsAt(s, k) =>
                PT_clearFullPts(PTOf(s), k)' = PTOf(s)']_vars

\* The second call of a store was a clearPts and a key points to every
\* datum: the first call gave it that set, and the clearPts, which took
\* nothing from it, named a key that did not point to the datum it named.
ClearIdempotentWitness ==
    /\ op = "clearPts" /\ nops = 2
    /\ \E k \in Keys : Pts(persPTData, k) = Datas

\* ---- C15: what topN is to return, said of the entries and not of the
\* counting loop.  An entry is <<map, location, key, id>>.
EntriesOf(name, m) == {<<name, 0, k, m[k]>> : k \in DOMAIN m}

EntriesOfDF(name, dfMap) ==
    UNION {{<<name, l, k, dfMap[l][k]>> : k \in DOMAIN dfMap[l]} : l \in DOMAIN dfMap}

\* The entries of the Key->ID maps the store under test owns; diffMaps says
\* whether diffPtsMap and propaPtsMap of a Diff store are among them.
OwnedEntries(diffMaps) ==
    CASE ty = "PersBase" -> EntriesOf("pts", persPTData.ptsMap)
      [] ty = "PersDiff" ->
            EntriesOf("pts", persPTData.ptsMap)
            \cup (IF diffMaps
                  THEN EntriesOf("diff", diffPtsMap) \cup EntriesOf("propa", propaPtsMap)
                  ELSE {})
      [] ty \in DFKinds ->
            EntriesOf("pts", DFStore.persPTData.ptsMap)
            \cup EntriesOfDF("in", DFStore.dfInPtsMap)
            \cup EntriesOfDF("out", DFStore.dfOutPtsMap)
      [] ty = "PersVersioned" ->
            EntriesOf("tl", tlPTData.ptsMap) \cup EntriesOf("at", atPTData.ptsMap)

RECURSIVE SumOver(_, _)
SumOver(f, S) ==
    IF S = {} THEN 0
    ELSE LET x == CHOOSE y \in S : TRUE IN f[x] + SumOver(f, S \ {x})

\* <<the largest sum of the occurrence counts of at most n IDs, the number of
\* entries>>, over the entries of E whose ID is not the empty set's.
TopNOver(E, n) ==
    LET ne == {e \in E : e[4] # emptyPointsToId}
        ids == {e[4] : e \in ne}
        cnt == [id \in ids |-> Cardinality({e \in ne : e[4] = id})]
        sums == {SumOver(cnt, T) : T \in {U \in SUBSET ids : Cardinality(U) <= n}}
    IN  <<CHOOSE x \in sums : \A y \in sums : x >= y, Cardinality(ne)>>

\* C15 as claimed: for every store and every n, topN(n) is (sum of the n
\* largest per-ID occurrence counts, number of entries) over the entries with
\* an ID other than the empty set's of all Key->ID maps the store owns, those
\* of a Diff store being all three of its maps.
TopNAllOwnedMaps ==
    \A n \in 0..MaxTopN : topN(n) = TopNOver(OwnedEntries(TRUE), n)

\* C15 as amended: the same, the maps of a Diff store being the points-to map
\* alone; diffPtsMap and propaPtsMap are not counted.
TopNOwnedMaps ==
    \A n \in 0..MaxTopN : topN(n) = TopNOver(OwnedEntries(FALSE), n)

\* Three entries, two of one ID and one of another, one of them in an OUT
\* map: topN(1) counts the two and topN(2) all three.
TopNOwnedMapsWitness ==
    /\ ty \in DFKinds
    /\ \E e \in OwnedEntries(FALSE) : e[1] = "out" /\ e[4] # emptyPointsToId
    /\ topN(1) = <<2, 3>>
    /\ topN(2) = <<3, 3>>

\* C16: in an IncDF store, whenever an operation changes the set dfIn[l][k],
\* k is in inDirty[l] right after it, and whenever it changes dfOut[l][k], k
\* is in outDirty[l] right after it.
MutationMarksDirty ==
    [][ty = "PersIncDataFlow" =>
          \A l \in Locs, k \in Keys :
              /\ DFIn(inc, l, k)' # DFIn(inc, l, k) => k \in getDFInUpdatedVar(inc, l)'
              /\ DFOut(inc, l, k)' # DFOut(inc, l, k) => k \in getDFOutUpdatedVar(inc, l)']_vars

\* updateATVPts has just filled the OUT set of a second variable of a
\* location, and both variables are in outDirty.
MutationMarksDirtyWitness ==
    /\ ty = "PersIncDataFlow" /\ op = "updateATVPts" /\ ret
    /\ \E l \in Locs :
          /\ getDFOutUpdatedVar(inc, l) = Keys
          /\ \A k \in Keys : DFOut(inc, l, k) # {}

\* C17: in an IncDF store, a key k in inDirty[l] means that dfIn[l][k] was
\* changed by an operation after the last one that took k out of inDirty[l],
\* or since creation; the same for outDirty[l] and dfOut[l][k].  A new store
\* has no dirty variable, and the operation at which k comes to be in
\* inDirty[l] changes dfIn[l][k], the one at which it comes to be in
\* outDirty[l] changes dfOut[l][k]; k then stays until an operation takes it
\* out.
DirtyJustified ==
    /\ (ty = "PersIncDataFlow" /\ nops = 0 /\ pc = 0) =>
          \A l \in Locs : getDFInUpdatedVar(inc, l) = {} /\ getDFOutUpdatedVar(inc, l) = {}
    /\ [][ty = "PersIncDataFlow" =>
            \A l \in Locs, k \in Keys :
                /\ (k \in getDFInUpdatedVar(inc, l)' /\ k \notin getDFInUpdatedVar(inc, l))
                      => DFIn(inc, l, k)' # DFIn(inc, l, k)
                /\ (k \in getDFOutUpdatedVar(inc, l)' /\ k \notin getDFOutUpdatedVar(inc, l))
                      => DFOut(inc, l, k)' # DFOut(inc, l, k)]_vars

\* updateAllDFInFromOut has just changed the IN set of a variable, which is
\* in inDirty, while another variable with an IN set of its own is not: its
\* flag was consumed.
DirtyJustifiedWitness ==
    /\ ty = "PersIncDataFlow" /\ op = "updateAllDFInFromOut" /\ ret
    /\ \E l \in Locs, k \in Keys : \E k2 \in Keys \ {k} :
          /\ getDFInUpdatedVar(inc, l) = {k}
          /\ DFIn(inc, l, k) # {} /\ DFIn(inc, l, k2) # {}

\* C18: in an IncDF store, updateDFOutFromIn(sL, sK, dL, dK) called while sK
\* is in inDirty[sL] takes sK out of inDirty[sL] whether or not dfOut[dL][dK]
\* changes, makes dfOut[dL][dK] its union with dfIn[sL][sK], and puts dK into
\* outDirty[dL] exactly when dfOut[dL][dK] changed, which is what it returns;
\* called while sK is not in inDirty[sL] it returns false and changes nothing.
InToOutConsumesFlag ==
    [][(ty = "PersIncDataFlow" /\ op' = "updateDFOutFromIn") =>
          \A sL \in Locs, sK \in Keys, dL \in Locs, dK \in Keys :
              UpdateDFOutFromInAt(sL, sK, dL, dK) =>
                  IF sK \in getDFInUpdatedVar(inc, sL)
                  THEN LET grown == DFOut(inc, dL, dK) \cup DFIn(inc, sL, sK)
                           chg == grown # DFOut(inc, dL, dK)
                       IN  /\ inc'.inUpdatedVarMap =
                                 [inc.inUpdatedVarMap EXCEPT ![sL] = @ \ {sK}]
                           /\ DFOut(inc, dL, dK)' = grown
                           /\ inc'.outUpdatedVarMap =
                                 [inc.outUpdatedVarMap EXCEPT
                                     ![dL] = IF chg THEN @ \cup {dK} ELSE @]
                           /\ ret' = chg
                  ELSE ~ret' /\ inc' = inc]_vars

\* The fourth call of a store, an updateDFOutFromIn, has just returned false
\* and no variable is in inDirty, while an IN set is not empty: the third
\* call filled it and marked it, and the fourth consumed the flag although
\* the OUT set it went to did not change.
InToOutConsumesFlagWitness ==
    /\ ty = "PersIncDataFlow" /\ op = "updateDFOutFromIn" /\ ~ret /\ nops = 4
    /\ \A l \in Locs : getDFInUpdatedVar(inc, l) = {}
    /\ \E l \in Locs, k \in Keys :
          DFIn(inc, l, k) # {} /\ DFOut(inc, l, k) = DFIn(inc, l, k)

\* C19: in an IncDF store, updateAllDFOutFromIn(l, singleton, strongUpdate)
\* applies the IN-to-OUT transfer to the keys that were in inDirty[l] when the
\* call started, singleton left out when strongUpdate is true, and to no
\* other: for each of those keys dfOut[l][k] becomes its union with dfIn[l][k]
\* and k leaves inDirty[l]; dfOut[l][k] of every other key, every OUT set of
\* the other locations and every IN set are as they were, as is the rest of
\* inDirty[l]; and the result is true iff some dfOut[l][k] changed.
IncUpdateAllOnlyDirty ==
    [][(ty = "PersIncDataFlow" /\ op' = "updateAllDFOutFromIn") =>
          \A l \in Locs, v \in Keys, su \in BOOLEAN :
              UpdateAllDFOutFromInAt(l, v, su) =>
                  LET todo == getDFInUpdatedVar(inc, l) \ (IF su THEN {v} ELSE {})
                  IN  /\ \A k \in Keys :
                            DFOut(inc, l, k)' =
                                IF k \in todo
                                THEN DFOut(inc, l, k) \cup DFIn(inc, l, k)
                                ELSE DFOut(inc, l, k)
                      /\ getDFInUpdatedVar(inc, l)' = getDFInUpdatedVar(inc, l) \ todo
                      /\ \A l2 \in Locs, k \in Keys :
                            /\ DFIn(inc, l2, k)' = DFIn(inc, l2, k)
                            /\ l2 # l => DFOut(inc, l2, k)' = DFOut(inc, l2, k)
                      /\ ret' <=> \E k \in Keys : DFOut(inc, l, k)' # DFOut(inc, l, k)]_vars

\* updateAllDFOutFromIn has just returned false at a location with no
\* variable in inDirty, where a variable has an IN set and an empty OUT set:
\* its flag had been consumed, and the call left it alone.
IncUpdateAllOnlyDirtyWitness ==
    /\ ty = "PersIncDataFlow" /\ op = "updateAllDFOutFromIn" /\ ~ret
    /\ \E l \in Locs, k \in Keys :
          /\ getDFInUpdatedVar(inc, l) = {}
          /\ DFIn(inc, l, k) # {} /\ DFOut(inc, l, k) = {}

\* C20: in an IncDF store, updateAllDFInFromIn(sL, sK, dL, dK) and
\* updateAllDFInFromOut(sL, sK, dL, dK) make dfIn[dL][dK] its union with the
\* source set whether or not the source is dirty, leave the source's dirty
\* flag as it was, and give the dfIn[dL][dK] and the result that the DF
\* store's operation of the same name gives on the same sets.
AllInIgnoresDirty ==
    [][(ty = "PersIncDataFlow" /\ op' \in {"updateAllDFInFromIn", "updateAllDFInFromOut"}) =>
          \A sL \in Locs, sK \in Keys, dL \in Locs, dK \in Keys :
              /\ UpdateAllDFInFromInAt(sL, sK, dL, dK) =>
                    LET r == DF_updateAllDFInFromIn(inc, sL, sK, dL, dK)
                    IN  /\ DFIn(inc, dL, dK)' = DFIn(inc, dL, dK) \cup DFIn(inc, sL, sK)
                        /\ varHasNewDFInPts(inc, sL, sK)' = varHasNewDFInPts(inc, sL, sK)
                        /\ DFIn(inc, dL, dK)' = DFIn(r.st, dL, dK)
                        /\ ret' = r.ret
              /\ UpdateAllDFInFromOutAt(sL, sK, dL, dK) =>
                    LET r == DF_updateAllDFInFromOut(inc, sL, sK, dL, dK)
                    IN  /\ DFIn(inc, dL, dK)' = DFIn(inc, dL, dK) \cup DFOut(inc, sL, sK)
                        /\ varHasNewDFOutPts(inc, sL, sK)' = varHasNewDFOutPts(inc, sL, sK)
                        /\ DFIn(inc, dL, dK)' = DFIn(r.st, dL, dK)
                        /\ ret' = r.ret]_vars

\* updateAllDFInFromOut has just filled an IN set from an OUT set whose
\* variable is in no outDirty: clearAllDFOutUpdatedVar had taken it out.
AllInIgnoresDirtyWitness ==
    /\ ty = "PersIncDataFlow" /\ op = "updateAllDFInFromOut" /\ ret
    /\ \A l \in Locs : getDFOutUpdatedVar(inc, l) = {}
    /\ \E l \in Locs, k \in Keys : DFIn(inc, l, k) # {}


\* C21: in an IncDF store, updateTLVPts(sL, sK, dK) called while sK is in
\* inDirty[sL] takes sK out of inDirty[sL], makes pts[dK] its union with
\* dfIn[sL][sK], returns whether pts[dK] changed and puts nothing into any
\* dirty set; called while sK is not in inDirty[sL] it returns false and
\* leaves pts[dK] and every dirty set as they were.
IncUpdateTLVPts ==
    [][(ty = "PersIncDataFlow" /\ op' = "updateTLVPts") =>
          \A sL \in Locs, sK \in Keys, dK \in Keys :
              UpdateTLVPtsAt(sL, sK, dK) =>
                  IF sK \in getDFInUpdatedVar(inc, sL)
                  THEN LET grown == Pts(inc.persPTData, dK) \cup DFIn(inc, sL, sK)
                       IN  /\ inc'.inUpdatedVarMap =
                                 [inc.inUpdatedVarMap EXCEPT ![sL] = @ \ {sK}]
                           /\ inc'.outUpdatedVarMap = inc.outUpdatedVarMap
                           /\ Pts(inc.persPTData, dK)' = grown
                           /\ ret' = (grown # Pts(inc.persPTData, dK))
                  ELSE /\ ~ret'
                       /\ Pts(inc.persPTData, dK)' = Pts(inc.persPTData, dK)
                       /\ inc'.inUpdatedVarMap = inc.inUpdatedVarMap
                       /\ inc'.outUpdatedVarMap = inc.outUpdatedVarMap]_vars

\* updateTLVPts has just returned true in an IncDF store: a top-level set
\* holds what an IN set holds, and the flag of that IN set, the only one
\* there was, is gone from inDirty.
IncUpdateTLVPtsWitness ==
    /\ ty = "PersIncDataFlow" /\ op = "updateTLVPts" /\ ret
    /\ \A l \in Locs : getDFInUpdatedVar(inc, l) = {}
    /\ \E l \in Locs, k \in Keys, k2 \in Keys :
          DFIn(inc, l, k) # {} /\ DFIn(inc, l, k) \subseteq Pts(inc.persPTData, k2)


\* C22: after clearAllDFOutUpdatedVar(l) on an IncDF store no key is in
\* outDirty[l], while outDirty of the other locations, every inDirty set and
\* every IN, OUT and top-level set are as they were; on a DF store the call
\* changes nothing.
ClearOutDirty ==
    [][(op' = "clearAllDFOutUpdatedVar") =>
          \A l \in Locs :
              ClearAllDFOutUpdatedVarAt(l) =>
                  IF ty = "PersIncDataFlow"
                  THEN /\ getDFOutUpdatedVar(inc, l)' = {}
                       /\ \A l2 \in Locs \ {l} :
                             getDFOutUpdatedVar(inc, l2)' = getDFOutUpdatedVar(inc, l2)
                       /\ inc'.inUpdatedVarMap = inc.inUpdatedVarMap
                       /\ \A l2 \in Locs, k \in Keys :
                             /\ DFIn(inc, l2, k)' = DFIn(inc, l2, k)
                             /\ DFOut(inc, l2, k)' = DFOut(inc, l2, k)
                       /\ \A k \in Keys :
                             Pts(inc.persPTData, k)' = Pts(inc.persPTData, k)
                  ELSE df' = df]_vars

\* The fourth call of an IncDF store, a clearAllDFOutUpdatedVar, has
\* returned: a location with a non-empty OUT set has nothing in outDirty,
\* and another location still has a key in outDirty.
ClearOutDirtyWitness ==
    /\ ty = "PersIncDataFlow" /\ op = "clearAllDFOutUpdatedVar" /\ nops = 4
    /\ \E l \in Locs, l2 \in Locs, k \in Keys :
          /\ l2 # l
          /\ DFOut(inc, l, k) # {}
          /\ getDFOutUpdatedVar(inc, l) = {}
          /\ getDFOutUpdatedVar(inc, l2) # {}


\* The sets a store holds, as pairs of a slot and its value: the top-level
\* sets of every key space and, in a DF store, the IN and OUT sets.
StoredSets ==
    {<<"pts", s, k, Pts(PTOf(s), k)>> : s \in Spaces, k \in Keys}
    \cup (IF ty \in DFKinds
          THEN {<<"in", l, k, DFIn(DFStore, l, k)>> : l \in Locs, k \in Keys}
               \cup {<<"out", l, k, DFOut(DFStore, l, k)>> : l \in Locs, k \in Keys}
          ELSE {})

\* C23: under a driver that issues only union-style calls (addPts, unionPts,
\* the DF and IncDF transfers, the unions across the key spaces of a
\* Versioned store) no call makes a stored set smaller and every call that
\* returns true makes one stored set strictly larger, and the driver, which
\* repeats its list of calls until a whole pass returns only false, stops.
ChangeSignalConverges ==
    /\ [][ConvStep =>
            /\ \A x \in StoredSets : \E y \in StoredSets' :
                  /\ <<y[1], y[2], y[3]>> = <<x[1], x[2], x[3]>>
                  /\ x[4] \subseteq y[4]
            /\ ret' => StoredSets' # StoredSets]_vars
    /\ (pc = 1) ~> Stopped

\* The driver has stopped, with no call before it started, and the first
\* call of its list is a unionPts of two keys whose sets are equal and not
\* empty: the first pass found the source empty, the second call filled it,
\* and the second pass returned true for the first call.
ChangeSignalConvergesWitness ==
    /\ Stopped /\ nops = 0 /\ Len(prog) = ConvLen
    /\ prog[1].m = "unionPts"
    /\ prog[1].a[2] # prog[1].a[3]
    /\ Pts(PTOf(prog[1].a[1]), prog[1].a[2]) # {}
    /\ Pts(PTOf(prog[1].a[1]), prog[1].a[2]) = Pts(PTOf(prog[1].a[1]), prog[1].a[3])


\* C24: when a DF store and an IncDF store start from the same state and get
\* the same calls, after every call each set of the IncDF store, top-level,
\* IN or OUT, is a subset of the same set of the DF store.
IncUnderApproximates ==
    twin =>
        /\ \A k \in Keys : Pts(inc.persPTData, k) \subseteq Pts(df.persPTData, k)
        /\ \A l \in Locs, k \in Keys :
              /\ DFIn(inc, l, k) \subseteq DFIn(df, l, k)
              /\ DFOut(inc, l, k) \subseteq DFOut(df, l, k)

\* updateTLVPts has just returned false in the IncDF store and true in its
\* twin: a top-level set of the twin holds what the same set of the IncDF
\* store does not, the IN set it came from having lost its flag to an
\* earlier call.
IncUnderApproximatesWitness ==
    /\ twin /\ op = "updateTLVPts" /\ ~ret /\ retDF
    /\ \E k \in Keys :
          /\ Pts(inc.persPTData, k) # Pts(df.persPTData, k)
          /\ Pts(inc.persPTData, k) \subseteq Pts(df.persPTData, k)


\* C25: in every reachable state of an IncDF store, after clear() too, a key
\* k in inDirty[l] has an entry in the IN map of l, hasDFInSet(l, k), with a
\* non-empty set, and a key k in outDirty[l] has an entry in the OUT map of
\* l, hasDFOutSet(l, k), with a non-empty set; so hasDFInSet(l) holds where
\* inDirty[l] is not empty and hasDFOutSet(l) where outDirty[l] is not.
DirtyHasEntry ==
    ty = "PersIncDataFlow" =>
        \A l \in Locs :
            /\ \A k \in getDFInUpdatedVar(inc, l) :
                  hasDFInSetVar(inc, l, k) /\ DFIn(inc, l, k) # {}
            /\ \A k \in getDFOutUpdatedVar(inc, l) :
                  hasDFOutSetVar(inc, l, k) /\ DFOut(inc, l, k) # {}
            /\ getDFInUpdatedVar(inc, l) # {} => hasDFInSet(inc, l)
            /\ getDFOutUpdatedVar(inc, l) # {} => hasDFOutSet(inc, l)

\* clear() has just returned on an IncDF store one location of which has a
\* key in inDirty and a key in outDirty.
DirtyHasEntryWitness ==
    /\ ty = "PersIncDataFlow" /\ op = "clear"
    /\ \E l \in Locs :
          getDFInUpdatedVar(inc, l) # {} /\ getDFOutUpdatedVar(inc, l) # {}


\* C26: in an IncDF store, after updateAllDFOutFromIn(l, singleton,
\* strongUpdate) inDirty[l] is empty when strongUpdate is false and holds at
\* most singleton when it is true, singleton being there exactly when it was
\* before the call; inDirty of every other location is as it was.
UpdateAllDrainsInDirty ==
    [][(ty = "PersIncDataFlow" /\ op' = "updateAllDFOutFromIn") =>
          \A l \in Locs, v \in Keys, su \in BOOLEAN :
              UpdateAllDFOutFromInAt(l, v, su) =>
                  /\ getDFInUpdatedVar(inc, l)' =
                        IF su THEN getDFInUpdatedVar(inc, l) \cap {v} ELSE {}
                  /\ \A l2 \in Locs \ {l} :
                        getDFInUpdatedVar(inc, l2)' = getDFInUpdatedVar(inc, l2)]_vars

\* The fifth call of an IncDF store, an updateAllDFOutFromIn, has returned
\* false, and both locations have a key in inDirty: the call was a strong
\* update of the only dirty key of its location, which kept its flag, and
\* the flags of the other location were left alone.
UpdateAllDrainsInDirtyWitness ==
    /\ ty = "PersIncDataFlow" /\ op = "updateAllDFOutFromIn" /\ ~ret /\ nops = 5
    /\ \A l \in Locs : getDFInUpdatedVar(inc, l) # {}


\* The step changes the top-level set of k, the IN set and the OUT set of k
\* at l.
PtsChanged(k) == Pts(DFStore.persPTData, k)' # Pts(DFStore.persPTData, k)

InChanged(l, k) == DFIn(DFStore, l, k)' # DFIn(DFStore, l, k)

OutChanged(l, k) == DFOut(DFStore, l, k)' # DFOut(DFStore, l, k)

NoPtsChanged == \A k \in Keys : ~PtsChanged(k)

NoInChanged == \A l \in Locs, k \in Keys : ~InChanged(l, k)

NoOutChanged == \A l \in Locs, k \in Keys : ~OutChanged(l, k)

\* What the transfers and the top-level calls leave alone, when the step is
\* one of them:
\* a set that changes is the destination's, and is not the source's.
KeepsOthers ==
    /\ op' = "updateDFInFromIn" =>
          /\ NoPtsChanged /\ NoOutChanged
          /\ \A l \in Locs, k \in Keys :
                InChanged(l, k) =>
                    ~ \E sL \in Locs, sK \in Keys, dL \in Locs, dK \in Keys :
                         /\ <<dL, dK>> # <<l, k>> \/ <<sL, sK>> = <<l, k>>
                         /\ UpdateDFInFromInAt(sL, sK, dL, dK)
    /\ op' = "updateDFInFromOut" =>
          /\ NoPtsChanged /\ NoOutChanged
          /\ \A l \in Locs, k \in Keys :
                InChanged(l, k) =>
                    ~ \E sL \in Locs, sK \in Keys, dL \in Locs, dK \in Keys :
                         /\ <<dL, dK>> # <<l, k>>
                         /\ UpdateDFInFromOutAt(sL, sK, dL, dK)
    /\ op' = "updateDFOutFromIn" =>
          /\ NoPtsChanged /\ NoInChanged
          /\ \A l \in Locs, k \in Keys :
                OutChanged(l, k) =>
                    ~ \E sL \in Locs, sK \in Keys, dL \in Locs, dK \in Keys :
                         /\ <<dL, dK>> # <<l, k>>
                         /\ UpdateDFOutFromInAt(sL, sK, dL, dK)
    /\ op' = "updateTLVPts" =>
          /\ NoInChanged /\ NoOutChanged
          /\ \A k \in Keys :
                PtsChanged(k) =>
                    ~ \E sL \in Locs, sK \in Keys, dK \in Keys \ {k} :
                         UpdateTLVPtsAt(sL, sK, dK)
    /\ op' = "updateATVPts" =>
          /\ NoPtsChanged /\ NoInChanged
          /\ \A l \in Locs, k \in Keys :
                OutChanged(l, k) =>
                    ~ \E sK \in Keys, dL \in Locs, dK \in Keys :
                         /\ <<dL, dK>> # <<l, k>>
                         /\ UpdateATVPtsAt(sK, dL, dK)
    /\ op' \in {"addPts", "unionPts", "clearPts", "clearFullPts"} =>
          NoInChanged /\ NoOutChanged

\* C27: in a DF and in an IncDF store each of updateDFInFromIn,
\* updateDFInFromOut, updateDFOutFromIn, updateTLVPts and updateATVPts leaves
\* the set of its source slot and the set of every slot other than its
\* destination, every other dfIn[l][k], dfOut[l][k] and pts[k], as it was,
\* and addPts, unionPts, clearPts and clearFullPts leave every dfIn and
\* dfOut set as it was.
TransfersChangeOnlyDestination == [][(ty \in DFKinds) => KeepsOthers]_vars

\* updateDFInFromOut has just returned true in a store where two variables
\* have IN sets, one of them an OUT set and one a top-level set, none empty:
\* the call filled one IN set and left the three others alone.
TransfersChangeOnlyDestinationWitness ==
    /\ ty \in DFKinds /\ op = "updateDFInFromOut" /\ ret
    /\ \E l \in Locs, k \in Keys, k2 \in Keys :
          /\ k # k2
          /\ DFIn(DFStore, l, k) # {} /\ DFIn(DFStore, l, k2) # {}
          /\ DFOut(DFStore, l, k) # {}
          /\ Pts(DFStore.persPTData, k) # {}

=============================================================================
